---------------------------- MODULE Spec2Model ----------------------------
(***************************************************************************)
(* A model of radv_nir_lower_ycbcr_textures                                *)
(* (src/amd/vulkan/radv_nir_lower_ycbcr_textures.c): the NIR pass that     *)
(* replaces a texture sample bound to an immutable YCbCr sampler by one    *)
(* sample per plane, a channel routing and a colour conversion.            *)
(*                                                                         *)
(* The shader is a table of instructions (instrs, indexed by instruction   *)
(* id) and, per function, the list of blocks, each the list of the ids it  *)
(* holds in order.  An SSA definition is named by the id of the            *)
(* instruction that produces it; a use is a source slot of an instruction  *)
(* that stands in a block.                                                 *)
(*                                                                         *)
(* Numbers of the emitted code are exact rationals <<n, d>>: the model     *)
(* gives the emitted arithmetic its real-number meaning.  The pass itself  *)
(* computes nothing at run time; it only builds instructions.              *)
(***************************************************************************)
EXTENDS Integers, Sequences, FiniteSets, TLC

(***************************************************************************)
(* Bounds of the model.                                                    *)
(***************************************************************************)
\* longest program description (tokens) the driver specification draws
MaxTokens == 3
\* most source slots that use a sample's destination
MaxUses == 2
\* largest constant array index a texture reference carries
MaxIndex == 2

(***************************************************************************)
(* Exact rational arithmetic for the meaning of the emitted instructions.  *)
(***************************************************************************)
Abs(x) == IF x < 0 THEN -x ELSE x

RECURSIVE Gcd(_, _)
Gcd(a, b) == IF b = 0 THEN a ELSE Gcd(b, a % b)

Rat(n, d) ==
  LET g == Gcd(Abs(n), Abs(d))
      s == IF d < 0 THEN -1 ELSE 1
  IN  IF n = 0 THEN <<0, 1>> ELSE <<s * (n \div g), s * (d \div g)>>

RInt(n) == <<n, 1>>
RAdd(a, b) ==
  \* over the least common denominator so that the numbers stay small
  LET g == Gcd(a[2], b[2])
      l == (a[2] \div g) * b[2]
  IN  Rat(a[1] * (l \div a[2]) + b[1] * (l \div b[2]), l)
RMul(a, b) ==
  \* cross-cancel first so that the products stay small
  LET x == Rat(a[1], b[2])
      y == Rat(b[1], a[2])
  IN  Rat(x[1] * y[1], x[2] * y[2])
RNeg(a) == <<-a[1], a[2]>>
RInv(a) == Rat(a[2], a[1])
RDiv(a, b) == RMul(a, RInv(b))

RECURSIVE Pow2(_)
Pow2(k) == IF k = 0 THEN 1 ELSE 2 * Pow2(k - 1)
\* pow(2, k) for an integer k that may be negative
RPow2(k) == IF k >= 0 THEN RInt(Pow2(k)) ELSE Rat(1, Pow2(-k))

(***************************************************************************)
(* Vulkan enumerations the pass reads.                                     *)
(***************************************************************************)
VK_FORMAT_UNDEFINED == "UNDEFINED"

YcbcrModels == {"RGB_IDENTITY", "YCBCR_IDENTITY", "YCBCR_601", "YCBCR_709", "YCBCR_2020"}
YcbcrRanges == {"ITU_FULL", "ITU_NARROW"}
ChromaLocations == {"COSITED_EVEN", "MIDPOINT"}
ComponentSwizzles == {"IDENTITY", "ZERO", "ONE", "R", "G", "B", "A"}
TexOps == {"tex", "txs", "query_levels", "lod"}

(***************************************************************************)
(* Format metadata (vk_format.h): plane count, subsampling divisors and    *)
(* the bit depth of the first channel of the plane-0 format.               *)
(***************************************************************************)
Formats ==
  {"G8B8G8R8_422_UNORM", "G8_B8R8_2PLANE_420_UNORM",
   "G8_B8_R8_3PLANE_420_UNORM", "G16_B16R16_2PLANE_420_UNORM"}

vk_format_get_plane_count(format) ==
  CASE format = "G8_B8_R8_3PLANE_420_UNORM" -> 3
    [] format = "G8_B8R8_2PLANE_420_UNORM" -> 2
    [] format = "G16_B16R16_2PLANE_420_UNORM" -> 2
    [] OTHER -> 1

vk_format_description(format) ==
  CASE format = "G8B8G8R8_422_UNORM" -> [width_divisor |-> 2, height_divisor |-> 1]
    [] format = "G8_B8R8_2PLANE_420_UNORM" -> [width_divisor |-> 2, height_divisor |-> 2]
    [] format = "G16_B16R16_2PLANE_420_UNORM" -> [width_divisor |-> 2, height_divisor |-> 2]
    [] format = "G8_B8_R8_3PLANE_420_UNORM" -> [width_divisor |-> 2, height_divisor |-> 2]
    [] OTHER -> [width_divisor |-> 1, height_divisor |-> 1]

\* vk_format_get_component_bits(vk_format_get_plane_format(format, 0), RGB, X)
vk_format_get_component_bits(format) ==
  IF format = "G16_B16R16_2PLANE_420_UNORM" THEN 16 ELSE 8

\* vk_format_compose_swizzles(&mapping, {0,1,2,3}, swizzles): position i of
\* the result, one of "X" "Y" "Z" "W" "0" "1"
vk_format_compose_swizzles(mapping) ==
  LET xyzw == <<"X", "Y", "Z", "W">>
      conv(i) ==
        LET s == mapping[i]
        IN  CASE s = "IDENTITY" -> xyzw[i]
              [] s = "ZERO" -> "0"
              [] s = "ONE" -> "1"
              [] s = "R" -> "X"
              [] s = "G" -> "Y"
              [] s = "B" -> "Z"
              [] s = "A" -> "W"
  IN  [i \in 1..4 |-> conv(i)]

\* swizzles[i] - VK_SWIZZLE_X, for the four channel selectors
SwizzleChannel(s) ==
  CASE s = "X" -> 0 [] s = "Y" -> 1 [] s = "Z" -> 2 [] s = "W" -> 3

(***************************************************************************)
(* struct radv_sampler_ycbcr_conversion                                    *)
(***************************************************************************)
Conversion(format, model, range, xoff, yoff, components) ==
  [format |-> format, ycbcr_model |-> model, ycbcr_range |-> range,
   chroma_offsets |-> <<xoff, yoff>>, components |-> components]

IdentityMapping == <<"IDENTITY", "IDENTITY", "IDENTITY", "IDENTITY">>

\* the element of an immutable-sampler array that has no conversion
NoConversion ==
  Conversion(VK_FORMAT_UNDEFINED, "RGB_IDENTITY", "ITU_FULL", "COSITED_EVEN",
             "COSITED_EVEN", IdentityMapping)

(***************************************************************************)
(* Instructions.  Every instruction is a record of one shape:              *)
(*   type   "tex" "alu" "load_const" "deref" "intrinsic"                   *)
(*   op     the texop, the ALU opcode, or the deref type ("var", "array")  *)
(*   src    the sources, each [src_type, ssa, swz]: src_type is the        *)
(*          nir_tex_src_type of a tex source, ssa the id of the defining   *)
(*          instruction, swz the component an ALU source reads             *)
(*   num_components, bit_size   the shape of the destination               *)
(*   val    the constants of a load_const                                  *)
(*   var    of a deref: the variable (descriptor_set, binding) at the root *)
(*   meta   the tex instruction's fields the pass copies; of a deref, the  *)
(*          sampler type's dimension / array / shadow                      *)
(***************************************************************************)
Src(ty, id, c) == [src_type |-> ty, ssa |-> id, swz |-> c]

Meta(dim, arr, shadow, dest_type, coord_components, component, texture_index) ==
  [sampler_dim |-> dim, is_array |-> arr, is_shadow |-> shadow,
   dest_type |-> dest_type, coord_components |-> coord_components,
   component |-> component, texture_index |-> texture_index]

NoMeta == Meta("", FALSE, FALSE, "", 0, 0, 0)
NoVar == [descriptor_set |-> 0, binding |-> 0]

Instr(type, op, src, nc, bits, val, var, meta) ==
  [type |-> type, op |-> op, src |-> src, num_components |-> nc,
   bit_size |-> bits, val |-> val, var |-> var, meta |-> meta]

Alu(op, src, nc) == Instr("alu", op, src, nc, 32, <<>>, NoVar, NoMeta)
LoadConst(val) == Instr("load_const", "imm", <<>>, Len(val), 32, val, NoVar, NoMeta)

\* nir_tex_instr_src_index: the first source of the given type, 0 for none
RECURSIVE SrcIndexFrom(_, _, _)
SrcIndexFrom(srcs, ty, i) ==
  IF i > Len(srcs) THEN 0
  ELSE IF srcs[i].src_type = ty THEN i
  ELSE SrcIndexFrom(srcs, ty, i + 1)

nir_tex_instr_src_index(tex, ty) == SrcIndexFrom(tex.src, ty, 1)

(***************************************************************************)
(* The state.                                                              *)
(*   instrs      the instruction table; an instruction's id is its index   *)
(*   funcs       the shader's functions in order, each [impl, blocks,      *)
(*               valid_metadata]; blocks is the list of blocks, each the   *)
(*               list of instruction ids in the block                      *)
(*   layout      the pipeline layout: layout[set][binding]                 *)
(*   eval_order  the order in which the build evaluates the arguments of   *)
(*               one call ("ltr" or "rtl"); C leaves it to the compiler    *)
(*   ndebug      the build: TRUE when NDEBUG is defined, so that assert    *)
(*               is compiled out and unreachable() is an optimizer hint    *)
(*   pc          the position of the pass                                  *)
(*   run         the number of calls of the pass so far                    *)
(*   fi, bi      the function and the block the traversal is in            *)
(*   cur, nxt    nir_foreach_instr_safe's instr and next                   *)
(*   progress, function_progress   the locals of the entry point           *)
(*   ret         the values returned so far, one per call                  *)
(*   state       struct ycbcr_state and the locals of                      *)
(*               try_lower_tex_ycbcr while a lowering is under way         *)
(*   removed     the ids of the instructions nir_instr_remove took out     *)
(*   hist        history: one record per call of try_lower_tex_ycbcr       *)
(*   entry       history: funcs as the current call of the pass found it   *)
(***************************************************************************)
VARIABLES instrs, funcs, layout, eval_order, ndebug, pc, run, fi, bi, cur, nxt,
          progress, function_progress, ret, state, removed, hist, entry

vars == <<instrs, funcs, layout, eval_order, ndebug, pc, run, fi, bi, cur, nxt,
          progress, function_progress, ret, state, removed, hist, entry>>

(***************************************************************************)
(* The instruction builder (nir_builder.h).  A call of the builder is      *)
(* written as an expression: its operands are expressions in turn, as in   *)
(* the source, where the operands of a call are calls of the builder.      *)
(*   Def(id)          a value that exists already                          *)
(*   Param(k)         the k-th argument of the enclosing Call              *)
(*   Call(args, body) a call of a function of this file: the arguments     *)
(*                    are built before the body                            *)
(* Build(t, e, env) builds expression e on instruction table t: it gives   *)
(* the table with the new instructions appended and the value of e,        *)
(* [t, v].  The builder's cursor stands before the sample being lowered,   *)
(* so the new instructions enter the block before it, in the order of      *)
(* their creation (see InsertedBlock).                                     *)
(***************************************************************************)
Ret(t, v) == [t |-> t, v |-> v]
\* Rest applied to the value of first: the statements of the source run
\* one after the other, each on what the one before it left
Then(first, Rest(_)) == CHOOSE y \in {Rest(v) : v \in {first}} : TRUE
Emit(t, ins) == Ret(Append(t, ins), Len(t) + 1)

Def(id) == [kind |-> "def", id |-> id]
Param(k) == [kind |-> "param", k |-> k]
Call(args, body) == [kind |-> "call", args |-> args, body |-> body]
AluExpr(op, args) == [kind |-> "alu", op |-> op, args |-> args]

nir_imm_float(r) == [kind |-> "imm", val |-> <<r>>]
nir_imm_int(n) == [kind |-> "imm", val |-> <<RInt(n)>>]
nir_build_imm(vec) == [kind |-> "imm", val |-> vec]
nir_channel(def, c) == [kind |-> "channel", def |-> def, c |-> c]
nir_fadd(a, b) == AluExpr("fadd", <<a, b>>)
nir_fmul(a, b) == AluExpr("fmul", <<a, b>>)
nir_fdiv(a, b) == AluExpr("fdiv", <<a, b>>)
nir_frcp(a) == AluExpr("frcp", <<a>>)
nir_i2f32(a) == AluExpr("i2f32", <<a>>)
nir_fdot4(a, b) == AluExpr("fdot4", <<a, b>>)
\* nir_vec / nir_vec4: one scalar source per component
nir_vec(comp) == AluExpr("vec", comp)

\* the order in which the build evaluates n arguments of one call
ArgOrder(n) ==
  IF eval_order = "ltr" THEN [i \in 1..n |-> i] ELSE [i \in 1..n |-> n + 1 - i]

\* the destination size of an ALU instruction: the size of the operation,
\* or of the first source for the per-component operations
AluComponents(t, op, srcs) ==
  CASE op = "vec" -> Len(srcs)
    [] op = "fdot4" -> 1
    [] OTHER -> t[srcs[1]].num_components

RECURSIVE Build(_, _, _)
RECURSIVE BuildArgs(_, _, _, _, _)
Build(t, e, env) ==
  CASE e.kind = "def" -> Ret(t, e.id)
    [] e.kind = "param" -> Ret(t, env[e.k])
    [] e.kind = "imm" -> Emit(t, LoadConst(e.val))
    [] e.kind = "channel" ->
         \* nir_channel -> nir_swizzle: the value itself when it is a scalar
         \* and component 0 is asked for, else a mov that reads component c
         Then(Build(t, e.def, env).v,
              LAMBDA def :
                IF t[def].num_components = 1 /\ e.c = 0
                THEN Ret(t, def)
                ELSE Emit(t, Alu("mov", <<Src("", def, e.c)>>, 1)))
    [] e.kind = "alu" ->
         Then(BuildArgs(t, e.args, env, ArgOrder(Len(e.args)), <<>>),
              LAMBDA a :
                Emit(a.t, Alu(e.op, [i \in 1..Len(a.v) |-> Src("", a.v[i], 0)],
                              AluComponents(a.t, e.op, a.v))))
    [] e.kind = "call" ->
         Then(BuildArgs(t, e.args, env, ArgOrder(Len(e.args)), <<>>),
              LAMBDA a : Build(a.t, e.body, a.v))

\* the arguments args, built in the order todo; ids maps the arguments
\* built so far to their values
BuildArgs(t, args, env, todo, ids) ==
  IF todo = <<>>
  THEN Ret(t, [i \in 1..Len(args) |-> ids[i]])
  ELSE Then(Build(t, args[Head(todo)], env),
            LAMBDA r : BuildArgs(r.t, args, env, Tail(todo),
                                 (Head(todo) :> r.v) @@ ids))

(***************************************************************************)
(* The meaning of a value: Eval(t, id, env) is the vector of rationals the *)
(* instruction id of table t computes, where env gives the vectors of the  *)
(* values taken as inputs (samples, loads, size queries).                  *)
(***************************************************************************)
RECURSIVE Eval(_, _, _)
Eval(t, id, env) ==
  IF id \in DOMAIN env THEN env[id]
  ELSE LET ins == t[id]
           arg(i) == Eval(t, ins.src[i].ssa, env)
           n == ins.num_components
       IN  CASE ins.type = "load_const" -> ins.val
             [] ins.op = "mov" -> <<arg(1)[ins.src[1].swz + 1]>>
             [] ins.op = "vec" -> [i \in 1..n |-> arg(i)[ins.src[i].swz + 1]]
             [] ins.op = "fadd" -> [i \in 1..n |-> RAdd(arg(1)[i], arg(2)[i])]
             [] ins.op = "fmul" -> [i \in 1..n |-> RMul(arg(1)[i], arg(2)[i])]
             [] ins.op = "fdiv" -> [i \in 1..n |-> RDiv(arg(1)[i], arg(2)[i])]
             [] ins.op = "frcp" -> [i \in 1..n |-> RInv(arg(1)[i])]
             [] ins.op = "i2f32" -> arg(1)
             [] ins.op = "fdot4" ->
                  <<RAdd(RAdd(RMul(arg(1)[1], arg(2)[1]), RMul(arg(1)[2], arg(2)[2])),
                         RAdd(RMul(arg(1)[3], arg(2)[3]), RMul(arg(1)[4], arg(2)[4])))>>

(***************************************************************************)
(* y_range, chroma_range: the range expansion of one channel.  The         *)
(* constants are the values of the source's expressions in real            *)
(* arithmetic: the rounding of -2^(bpc-1)/(2^bpc - 1) to binary32 is left  *)
(* out, the other constants are exact in binary32.                         *)
(***************************************************************************)
y_range(y_channel, bpc, range) ==
  CASE range = "ITU_FULL" -> y_channel
    [] range = "ITU_NARROW" ->
         nir_fmul(nir_fadd(nir_fmul(y_channel,
                                    nir_imm_float(RAdd(RPow2(bpc), RInt(-1)))),
                           nir_imm_float(RMul(RInt(-16), RPow2(bpc - 8)))),
                  nir_frcp(nir_imm_float(RMul(RInt(219), RPow2(bpc - 8)))))

\* the chroma expansion scaled by the luma excursion 219
chroma_range_luma_scale(chroma_channel, bpc, range) ==
  CASE range = "ITU_FULL" ->
         nir_fadd(chroma_channel,
                  nir_imm_float(RDiv(RNeg(RPow2(bpc - 1)),
                                     RAdd(RPow2(bpc), RInt(-1)))))
    [] range = "ITU_NARROW" ->
         nir_fmul(nir_fadd(nir_fmul(chroma_channel,
                                    nir_imm_float(RAdd(RPow2(bpc), RInt(-1)))),
                           nir_imm_float(RMul(RInt(-128), RPow2(bpc - 8)))),
                  nir_frcp(nir_imm_float(RMul(RInt(219), RPow2(bpc - 8)))))

chroma_range(chroma_channel, bpc, range) ==
  CASE range = "ITU_FULL" ->
         nir_fadd(chroma_channel,
                  nir_imm_float(RDiv(RNeg(RPow2(bpc - 1)),
                                     RAdd(RPow2(bpc), RInt(-1)))))
    [] range = "ITU_NARROW" ->
         nir_fmul(nir_fadd(nir_fmul(chroma_channel,
                                    nir_imm_float(RAdd(RPow2(bpc), RInt(-1)))),
                           nir_imm_float(RMul(RInt(-128), RPow2(bpc - 8)))),
                  nir_frcp(nir_imm_float(RMul(RInt(224), RPow2(bpc - 8)))))

(***************************************************************************)
(* ycbcr_model_to_rgb_matrix: the three rows of the model's matrix.  Each  *)
(* entry is the exact value of the binary32 literal in the source (the     *)
(* .f32 field holds the literal rounded to binary32).                      *)
(***************************************************************************)
ycbcr_model_to_rgb_matrix(model) ==
  CASE model = "YCBCR_601" ->
         << << <<2940207, 2097152>>, <<1, 1>>, <<0, 1>>, <<0, 1>> >>,
            << <<-11981219, 16777216>>, <<1, 1>>, <<-5773649, 16777216>>, <<0, 1>> >>,
            << <<0, 1>>, <<1, 1>>, <<14864613, 8388608>>, <<0, 1>> >> >>
    [] model = "YCBCR_709" ->
         << << <<6605203, 4194304>>, <<1, 1>>, <<0, 1>>, <<0, 1>> >>,
            << <<-15707675, 33554432>>, <<1, 1>>, <<-12571335, 67108864>>, <<0, 1>> >>,
            << <<0, 1>>, <<1, 1>>, <<1945771, 1048576>>, <<0, 1>> >> >>
    [] model = "YCBCR_2020" ->
         << << <<12369841, 8388608>>, <<1, 1>>, <<0, 1>>, <<0, 1>> >>,
            << <<-9585715, 16777216>>, <<1, 1>>, <<-11042973, 67108864>>, <<0, 1>> >>,
            << <<0, 1>>, <<1, 1>>, <<15782327, 8388608>>, <<0, 1>> >> >>

(***************************************************************************)
(* convert_ycbcr: range expansion of (raw[0], raw[1], raw[2]) as (chroma,  *)
(* luma, chroma), then the matrix unless the model is YCBCR_IDENTITY.      *)
(***************************************************************************)
\* nir_vec4(chroma_range(raw[0]), y_range(raw[1]), chroma_range(raw[2]), 1.0)
ExpandedChannels(conversion, raw_channels, bits) ==
  LET range == conversion.ycbcr_range
  IN  nir_vec(<<Call(<<nir_channel(Def(raw_channels), 0)>>,
                     chroma_range(Param(1), bits, range)),
                Call(<<nir_channel(Def(raw_channels), 1)>>,
                     y_range(Param(1), bits, range)),
                Call(<<nir_channel(Def(raw_channels), 2)>>,
                     chroma_range(Param(1), bits, range)),
                nir_imm_float(RInt(1))>>)

\* the first row of the matrix used for every output channel
ConvertedChannels_first_row(conversion_matrix, expanded_channels) ==
  <<nir_fdot4(Def(expanded_channels), nir_build_imm(conversion_matrix[1])),
    nir_fdot4(Def(expanded_channels), nir_build_imm(conversion_matrix[1])),
    nir_fdot4(Def(expanded_channels), nir_build_imm(conversion_matrix[1]))>>

\* converted_channels[]: three nir_fdot4 with the rows of the matrix
ConvertedChannels(conversion_matrix, expanded_channels) ==
  <<nir_fdot4(Def(expanded_channels), nir_build_imm(conversion_matrix[1])),
    nir_fdot4(Def(expanded_channels), nir_build_imm(conversion_matrix[2])),
    nir_fdot4(Def(expanded_channels), nir_build_imm(conversion_matrix[3]))>>

\* return nir_vec4(converted_channels[0], [1], [2], nir_imm_float(1.0))
ConvertedVec(converted_channels) ==
  nir_vec(<<Def(converted_channels[1]), Def(converted_channels[2]),
            Def(converted_channels[3]), nir_imm_float(RInt(1))>>)

\* the matrix left out: the range-expanded vector returned for every model
convert_ycbcr_expanded_only(t, conversion, raw_channels, bits) ==
  Build(t, ExpandedChannels(conversion, raw_channels, bits), <<>>)

convert_ycbcr(t, conversion, raw_channels, bits) ==
  Then(Build(t, ExpandedChannels(conversion, raw_channels, bits), <<>>),
       LAMBDA expanded_channels :
         IF conversion.ycbcr_model = "YCBCR_IDENTITY"
         THEN expanded_channels
         ELSE Then(BuildArgs(expanded_channels.t,
                     ConvertedChannels(
                       ycbcr_model_to_rgb_matrix(conversion.ycbcr_model),
                       expanded_channels.v),
                     <<>>, ArgOrder(3), <<>>),
                   LAMBDA converted_channels :
                     Build(converted_channels.t,
                           ConvertedVec(converted_channels.v), <<>>)))

(***************************************************************************)
(* get_texture_size: a txs on the texture deref, converted to float.       *)
(***************************************************************************)
\* nir_tex_instr_dest_size of a txs: the dimension's size plus the layer
TxsDestSize(dim, is_array) ==
  (CASE dim \in {"1D", "BUF"} -> 1
     [] dim = "3D" -> 3
     [] OTHER -> 2) + (IF is_array THEN 1 ELSE 0)

get_texture_size(t, texture) ==
  LET type == t[texture].meta
      tex == Instr("tex", "txs", <<Src("texture_deref", texture, 0)>>,
                   TxsDestSize(type.sampler_dim, type.is_array), 32, <<>>, NoVar,
                   Meta(type.sampler_dim, type.is_array, type.is_shadow, "int",
                        0, 0, 0))
  IN  Then(Emit(t, tex), LAMBDA q : Build(q.t, nir_i2f32(Def(q.v)), <<>>))

(***************************************************************************)
(* implicit_downsampled_coord: value + 1.0 / (div_scale * max_value)       *)
(***************************************************************************)
\* the offset halved: value + 1.0 / (2 * div_scale * max_value)
implicit_downsampled_coord_halved(value, max_value, div_scale) ==
  nir_fadd(value,
           nir_fdiv(nir_imm_float(RInt(1)),
                    nir_fmul(nir_imm_float(RInt(2 * div_scale)), max_value)))

implicit_downsampled_coord(value, max_value, div_scale) ==
  nir_fadd(value,
           nir_fdiv(nir_imm_float(RInt(1)),
                    nir_fmul(nir_imm_float(RInt(div_scale)), max_value)))

\* the test of the chroma site left out: every subsampled axis is adjusted
RECURSIVE CoordsLoop_every_site(_, _, _, _, _, _, _)
CoordsLoop_every_site(t, conversion, tex_deref, old_coords, c, image_size, comp) ==
  LET fmt_desc == vk_format_description(conversion.format)
      divisors == <<fmt_desc.width_divisor, fmt_desc.height_divisor>>
  IN  IF c >= t[old_coords].num_components
      THEN Build(t, nir_vec([i \in 1..Len(comp) |-> Def(comp[i])]), <<>>)
      ELSE IF c < Len(divisors) /\ divisors[c + 1] > 1
      THEN Then(IF image_size = 0
                THEN get_texture_size(t, tex_deref)
                ELSE Ret(t, image_size),
             LAMBDA sz :
               Then(Build(sz.t,
                      Call(<<nir_channel(Def(old_coords), c),
                             nir_channel(Def(sz.v), c)>>,
                           implicit_downsampled_coord(Param(1), Param(2),
                                                      divisors[c + 1])),
                      <<>>),
                    LAMBDA r :
                      CoordsLoop_every_site(r.t, conversion, tex_deref, old_coords,
                                 c + 1, sz.v, Append(comp, r.v))))
      ELSE Then(Build(t, nir_channel(Def(old_coords), c), <<>>),
                LAMBDA r :
                  CoordsLoop_every_site(r.t, conversion, tex_deref, old_coords, c + 1,
                             image_size, Append(comp, r.v)))

(***************************************************************************)
(* implicit_downsampled_coords: the loop over the coordinate's components. *)
(* image_size is the function's local, NULL (0) on entry; comp the         *)
(* components built so far.                                                *)
(***************************************************************************)
RECURSIVE CoordsLoop(_, _, _, _, _, _, _)
CoordsLoop(t, conversion, tex_deref, old_coords, c, image_size, comp) ==
  LET fmt_desc == vk_format_description(conversion.format)
      divisors == <<fmt_desc.width_divisor, fmt_desc.height_divisor>>
  IN  IF c >= t[old_coords].num_components
      THEN Build(t, nir_vec([i \in 1..Len(comp) |-> Def(comp[i])]), <<>>)
      ELSE IF c < Len(divisors) /\ divisors[c + 1] > 1
              /\ conversion.chroma_offsets[c + 1] = "COSITED_EVEN"
      THEN Then(IF image_size = 0
                THEN get_texture_size(t, tex_deref)
                ELSE Ret(t, image_size),
             LAMBDA sz :
               Then(Build(sz.t,
                      Call(<<nir_channel(Def(old_coords), c),
                             nir_channel(Def(sz.v), c)>>,
                           implicit_downsampled_coord(Param(1), Param(2),
                                                      divisors[c + 1])),
                      <<>>),
                    LAMBDA r :
                      CoordsLoop(r.t, conversion, tex_deref, old_coords,
                                 c + 1, sz.v, Append(comp, r.v))))
      ELSE Then(Build(t, nir_channel(Def(old_coords), c), <<>>),
                LAMBDA r :
                  CoordsLoop(r.t, conversion, tex_deref, old_coords, c + 1,
                             image_size, Append(comp, r.v)))

implicit_downsampled_coords(t, st, old_coords) ==
  CoordsLoop(t, st.conversion, st.tex_deref, old_coords, 0, 0, <<>>)

(***************************************************************************)
(* create_plane_tex_instr_implicit: the clone of the sample for one plane. *)
(***************************************************************************)
\* the loop over the old sources: the table and the new sources so far
RECURSIVE PlaneSrcLoop(_, _, _, _, _)
PlaneSrcLoop(t, st, plane, i, srcs) ==
  LET old_tex == t[st.origin_tex]
  IN  IF i > Len(old_tex.src) THEN Ret(t, srcs)
      ELSE IF old_tex.src[i].src_type = "coord" /\ plane # 0
      THEN Then(implicit_downsampled_coords(t, st, old_tex.src[i].ssa),
                LAMBDA r : PlaneSrcLoop(r.t, st, plane, i + 1,
                                        Append(srcs, Src("coord", r.v, 0))))
      ELSE PlaneSrcLoop(t, st, plane, i + 1, Append(srcs, old_tex.src[i]))

\* the plane source holds 0 in every clone
create_plane_tex_instr_implicit_plane0(t, st, plane) ==
  LET old_tex == t[st.origin_tex]
      m == old_tex.meta
      tex(srcs, pl) ==
        Instr("tex", old_tex.op, Append(srcs, Src("plane", pl, 0)),
              old_tex.num_components, old_tex.bit_size, <<>>, NoVar,
              Meta(m.sampler_dim, m.is_array, FALSE, m.dest_type,
                   m.coord_components, m.component, m.texture_index))
  IN  Then(PlaneSrcLoop(t, st, plane, 1, <<>>),
           LAMBDA s :
             Then(Build(s.t, nir_imm_int(0), <<>>),
                  LAMBDA k : Emit(k.t, tex(s.v, k.v))))

create_plane_tex_instr_implicit(t, st, plane) ==
  LET old_tex == t[st.origin_tex]
      m == old_tex.meta
      tex(srcs, pl) ==
        Instr("tex", old_tex.op, Append(srcs, Src("plane", pl, 0)),
              old_tex.num_components, old_tex.bit_size, <<>>, NoVar,
              \* is_shadow is not among the fields copied
              Meta(m.sampler_dim, m.is_array, FALSE, m.dest_type,
                   m.coord_components, m.component, m.texture_index))
  IN  Then(PlaneSrcLoop(t, st, plane, 1, <<>>),
           LAMBDA s :
             Then(Build(s.t, nir_imm_int(plane), <<>>),
                  LAMBDA k : Emit(k.t, tex(s.v, k.v))))

(***************************************************************************)
(* get_plane_swizzles, build_swizzled_components: the channel routing.     *)
(***************************************************************************)
\* the two chroma components of the second plane of a 2-plane format
\* exchanged
get_plane_swizzles_exchanged(format) ==
  LET planes == vk_format_get_plane_count(format)
  IN  CASE planes = 3 -> [plane |-> <<2, 0, 1, 0>>, swizzle |-> <<0, 0, 0, 3>>]
        [] planes = 2 -> [plane |-> <<1, 0, 1, 0>>, swizzle |-> <<0, 0, 1, 3>>]
        [] planes = 1 -> [plane |-> <<0, 0, 0, 0>>, swizzle |-> <<0, 1, 2, 3>>]

get_plane_swizzles(format) ==
  LET planes == vk_format_get_plane_count(format)
  IN  CASE planes = 3 -> [plane |-> <<2, 0, 1, 0>>, swizzle |-> <<0, 0, 0, 3>>]
        [] planes = 2 -> [plane |-> <<1, 0, 1, 0>>, swizzle |-> <<1, 0, 0, 3>>]
        [] planes = 1 -> [plane |-> <<0, 0, 0, 0>>, swizzle |-> <<0, 1, 2, 3>>]

RECURSIVE SwizzleLoop(_, _, _, _, _, _, _, _)
SwizzleLoop(t, plane_swizzle, swizzles, plane_values, zero, one, i, values) ==
  IF i > 4 THEN Build(t, nir_vec([k \in 1..4 |-> Def(values[k])]), <<>>)
  ELSE LET s == swizzles[i]
       IN  IF s \in {"X", "Y", "Z", "W"}
           THEN LET channel == SwizzleChannel(s)
                IN  Then(Build(t,
                           nir_channel(
                             Def(plane_values[plane_swizzle.plane[channel + 1] + 1]),
                             plane_swizzle.swizzle[channel + 1]), <<>>),
                         LAMBDA r :
                           SwizzleLoop(r.t, plane_swizzle, swizzles, plane_values,
                                       zero, one, i + 1, Append(values, r.v)))
           ELSE SwizzleLoop(t, plane_swizzle, swizzles, plane_values, zero, one,
                            i + 1, Append(values, IF s = "0" THEN zero ELSE one))

build_swizzled_components(t, format, mapping, plane_values) ==
  LET plane_swizzle == get_plane_swizzles(format)
      swizzles == vk_format_compose_swizzles(mapping)
  IN  Then(Build(t, nir_imm_float(RInt(0)), <<>>),
           LAMBDA zero :
             Then(Build(zero.t, nir_imm_float(RInt(1)), <<>>),
                  LAMBDA one :
                    SwizzleLoop(one.t, plane_swizzle, swizzles, plane_values,
                                zero.v, one.v, 1, <<>>)))

(***************************************************************************)
(* The shader the pass is given.  A program is described by a list of      *)
(* tokens: "N" a function without a body, "F" a function with a body (and  *)
(* its first block), "B" a further block of the function, "T" a texture    *)
(* instruction in the current block with the instructions it needs around  *)
(* it.  A texture site is                                                  *)
(*   op        the texop                                                   *)
(*   ref       the texture reference: "var" a variable, "const" / "dyn" a  *)
(*             variable and one array step with a constant / computed      *)
(*             index, "deep" a variable and two array steps, the last      *)
(*             with a constant index                                       *)
(*   binding   the variable's binding in descriptor set 1                  *)
(*   index     the constant index                                          *)
(*   nuses     the number of source slots that read the destination        *)
(***************************************************************************)
Site(op, ref, binding, index, nuses) ==
  [op |-> op, ref |-> ref, binding |-> binding, index |-> index, nuses |-> nuses,
   nc |-> 4]

\* the site with a destination of nc components
SiteOfSize(site, nc) == [site EXCEPT !.nc = nc]

NoSite == Site("", "", 0, 0, 0)
Tok(kind, site) == [kind |-> kind, site |-> site]
TokN == Tok("N", NoSite)
TokF == Tok("F", NoSite)
TokB == Tok("B", NoSite)
TokT(site) == Tok("T", site)

AllMetadata == {"block_index", "dominance", "live_ssa_defs", "loop_analysis"}

SamplerType == Meta("2D", FALSE, FALSE, "", 0, 0, 0)

\* the sources and the destination size of a texture instruction of the
\* given op, reading the texture deref d and the coordinate c
SiteTex(op, d, c, l) ==
  CASE op = "tex" ->
         Instr("tex", op, <<Src("texture_deref", d, 0), Src("sampler_deref", d, 0),
                            Src("coord", c, 0)>>,
               4, 32, <<>>, NoVar, Meta("2D", FALSE, FALSE, "float", 2, 0, 0))
    [] op = "lod" ->
         Instr("tex", op, <<Src("texture_deref", d, 0), Src("sampler_deref", d, 0),
                            Src("coord", c, 0)>>,
               2, 32, <<>>, NoVar, Meta("2D", FALSE, FALSE, "float", 2, 0, 0))
    [] op = "txs" ->
         Instr("tex", op, <<Src("texture_deref", d, 0), Src("lod", l, 0)>>,
               2, 32, <<>>, NoVar, Meta("2D", FALSE, FALSE, "int", 0, 0, 0))
    [] op = "query_levels" ->
         Instr("tex", op, <<Src("texture_deref", d, 0)>>,
               1, 32, <<>>, NoVar, Meta("2D", FALSE, FALSE, "int", 0, 0, 0))

\* The instructions of one site, appended to table t: the coordinate load,
\* the lod constant, the deref chain, the texture instruction and its user.
BuildSite(t, site) ==
  LET n == Len(t)
      \* "layered": a variable of a 2D array sampler, sampled with a
      \* 3-component coordinate (x, y, layer) and a bias
      layered == site.ref = "layered"
      coord == Instr("intrinsic", "load_input", <<>>, IF layered THEN 3 ELSE 2,
                     32, <<>>, NoVar, NoMeta)
      lod == LoadConst(<<RInt(0)>>)
      var == Instr("deref", "var", <<>>, 1, 32, <<>>,
                   [descriptor_set |-> 1, binding |-> site.binding],
                   IF layered THEN [SamplerType EXCEPT !.is_array = TRUE]
                   ELSE SamplerType)
      arr(parent, idx) ==
        Instr("deref", "array", <<Src("parent", parent, 0), Src("index", idx, 0)>>,
              1, 32, <<>>, NoVar, SamplerType)
      dyn == Instr("intrinsic", "load_input", <<>>, 1, 32, <<>>, NoVar, NoMeta)
      strct(parent) ==
        Instr("deref", "struct", <<Src("parent", parent, 0)>>,
              1, 32, <<>>, NoVar, SamplerType)
      chain ==
        CASE site.ref = "var" -> <<var>>
          [] site.ref = "const" ->
               <<var, LoadConst(<<RInt(site.index)>>), arr(n + 3, n + 4)>>
          [] site.ref = "dyn" -> <<var, dyn, arr(n + 3, n + 4)>>
          [] site.ref = "deep" ->
               <<var, LoadConst(<<RInt(0)>>), arr(n + 3, n + 4),
                 LoadConst(<<RInt(site.index)>>), arr(n + 5, n + 6)>>
          \* a member of a struct variable
          [] site.ref = "struct" -> <<var, strct(n + 3)>>
          \* a variable, read by an instruction whose texture_index is 1
          [] site.ref = "texidx" -> <<var>>
          \* no deref: the instruction names its texture by texture_index
          [] site.ref = "none" -> <<>>
          [] site.ref = "layered" -> <<var>>
      d == n + 2 + Len(chain)
      sized == SiteTex(site.op, d, n + 1, n + 2)
      plain == IF site.op = "tex" THEN [sized EXCEPT !.num_components = site.nc]
               ELSE sized
      tex ==
        CASE site.ref = "texidx" -> [plain EXCEPT !.meta.texture_index = 1]
          [] site.ref = "none" ->
               [plain EXCEPT !.src =
                  SelectSeq(@, LAMBDA x : x.src_type \notin
                                 {"texture_deref", "sampler_deref"})]
          [] site.ref = "layered" /\ site.op \in {"tex", "lod"} ->
               [plain EXCEPT !.src = Append(@, Src("bias", n + 2, 0)),
                             !.meta.is_array = TRUE,
                             !.meta.coord_components = 3]
          [] OTHER -> plain
      user == Alu("use", [k \in 1..site.nuses |-> Src("", d + 1, 0)], 4)
      new == <<coord, lod>> \o chain \o <<tex>>
             \o (IF site.nuses > 0 THEN <<user>> ELSE <<>>)
  IN  [t |-> t \o new, ids |-> [k \in 1..Len(new) |-> n + k]]

RECURSIVE BuildProgram(_, _, _, _)
BuildProgram(toks, i, t, fs) ==
  IF i > Len(toks) THEN [t |-> t, fs |-> fs]
  ELSE LET tk == toks[i]
           nf == Len(fs)
           nb == IF nf = 0 THEN 0 ELSE Len(fs[nf].blocks)
       IN  CASE tk.kind = "N" ->
                  BuildProgram(toks, i + 1, t,
                    Append(fs, [impl |-> FALSE, blocks |-> <<>>,
                                valid_metadata |-> {}]))
             [] tk.kind = "F" ->
                  BuildProgram(toks, i + 1, t,
                    Append(fs, [impl |-> TRUE, blocks |-> << <<>> >>,
                                valid_metadata |-> AllMetadata]))
             [] tk.kind = "B" ->
                  BuildProgram(toks, i + 1, t,
                    [fs EXCEPT ![nf].blocks = Append(@, <<>>)])
             [] tk.kind = "T" ->
                  LET s == BuildSite(t, tk.site)
                  IN  BuildProgram(toks, i + 1, s.t,
                        [fs EXCEPT ![nf].blocks[nb] = @ \o s.ids])

\* a block or an instruction needs a function body to stand in
WellFormed(toks) ==
  /\ Len(toks) >= 1
  /\ toks[1].kind \in {"N", "F"}
  /\ \A i \in 2..Len(toks) :
       toks[i].kind \in {"B", "T"} => toks[i - 1].kind # "N"

(***************************************************************************)
(* The pipeline layout: descriptor set 1 with                              *)
(*   binding 1  no immutable YCbCr samplers                                *)
(*   binding 2  one sampler with the conversion                            *)
(*   binding 3  an array of two samplers, the first without a conversion   *)
(*              (format UNDEFINED), the second with it                     *)
(***************************************************************************)
Binding(array_size, samplers) ==
  [array_size |-> array_size, ycbcr_samplers |-> samplers]

Layout(conv) ==
  << << Binding(1, <<>>), Binding(1, <<conv>>),
        Binding(2, <<NoConversion, conv>>) >> >>

\* radv_immutable_ycbcr_samplers: the binding's table, <<>> for NULL
radv_immutable_ycbcr_samplers(set_layout, binding) ==
  set_layout[binding].ycbcr_samplers

NoState ==
  [origin_tex |-> 0, tex_deref |-> 0, conversion |-> NoConversion,
   plane_values |-> <<>>, p |-> 0, result |-> 0]

Setup(toks, conv, order) ==
  LET prog == BuildProgram(toks, 1, <<>>, <<>>)
  IN  /\ instrs = prog.t
      /\ funcs = prog.fs
      /\ layout = Layout(conv)
      /\ entry = <<>>
      /\ eval_order = order
      /\ pc = "start"
      /\ run = 0
      /\ fi = 0
      /\ bi = 0
      /\ cur = 0
      /\ nxt = 0
      /\ progress = FALSE
      /\ function_progress = FALSE
      /\ ret = <<>>
      /\ state = NoState
      /\ removed = {}
      /\ hist = <<>>

(***************************************************************************)
(* The instruction lists and the SSA uses.                                 *)
(***************************************************************************)
Range(s) == {s[i] : i \in DOMAIN s}

\* the ids of the instructions that stand in a block
Live(fs) ==
  UNION {UNION {Range(fs[f].blocks[b]) : b \in DOMAIN fs[f].blocks} : f \in DOMAIN fs}

\* the uses of definition d: the source slots <<instruction, slot>> of the
\* instructions in the blocks that read it
Uses(t, fs, d) ==
  UNION {{<<i, k>> : k \in {j \in DOMAIN t[i].src : t[i].src[j].ssa = d}} :
         i \in Live(fs)}

UseCount(t, fs, d) == Cardinality(Uses(t, fs, d))

IndexOf(blk, id) == CHOOSE k \in DOMAIN blk : blk[k] = id

\* the instruction after id in the block, 0 at the end
Succ(blk, id) ==
  IF id = 0 THEN 0
  ELSE LET k == IndexOf(blk, id)
       IN  IF k < Len(blk) THEN blk[k + 1] ELSE 0

\* nir_foreach_instr_safe with "if (instr->type != nir_instr_type_tex)
\* continue": the first texture instruction at or after id, 0 for none
FirstTex(t, blk, id) ==
  IF id = 0 THEN 0
  ELSE LET rest == {k \in IndexOf(blk, id)..Len(blk) : t[blk[k]].type = "tex"}
       IN  IF rest = {} THEN 0
           ELSE blk[CHOOSE k \in rest : \A j \in rest : k <= j]

BlockHead(blk) == IF Len(blk) = 0 THEN 0 ELSE blk[1]

\* the new instructions entering after instruction id
InsertedBlock_after(blk, id, new) ==
  LET k == IndexOf(blk, id)
  IN  SubSeq(blk, 1, k) \o new \o SubSeq(blk, k + 1, Len(blk))

\* nir_builder_instr_insert with the cursor before instruction id: the new
\* instructions enter before it, in the order of their creation
InsertedBlock(blk, id, new) ==
  LET k == IndexOf(blk, id)
  IN  SubSeq(blk, 1, k - 1) \o new \o SubSeq(blk, k, Len(blk))

NewIds(t, t2) == [k \in 1..(Len(t2) - Len(t)) |-> Len(t) + k]

\* nir_deref_instr_get_variable: the variable at the root of the chain
RECURSIVE nir_deref_instr_get_variable(_, _)
nir_deref_instr_get_variable(t, deref) ==
  IF t[deref].op = "var" THEN t[deref].var
  ELSE nir_deref_instr_get_variable(t, t[deref].src[1].ssa)

\* nir_src_is_const: the source is produced by a load_const
nir_src_is_const(t, src) == t[src.ssa].type = "load_const"
\* nir_src_as_uint of a constant source
nir_src_as_uint(t, src) == t[src.ssa].val[1][1]

\* the second operand whatever the first
MIN2_bound(a, b) == b

MIN2(a, b) == IF a < b THEN a ELSE b

(***************************************************************************)
(* try_lower_tex_ycbcr up to "struct ycbcr_state state = ...": the         *)
(* returns before anything is built.  Gives [lower, deref, conversion].    *)
(***************************************************************************)
TryLowerDecision(t, lay, tex) ==
  LET deref_src_idx == nir_tex_instr_src_index(t[tex], "texture_deref")
      deref == t[tex].src[deref_src_idx].ssa
      var == nir_deref_instr_get_variable(t, deref)
      set_layout == lay[var.descriptor_set]
      binding == set_layout[var.binding]
      ycbcr_samplers == radv_immutable_ycbcr_samplers(set_layout, var.binding)
      no == [lower |-> FALSE, deref |-> deref, conversion |-> NoConversion]
  IN  IF ycbcr_samplers = <<>> THEN no
      ELSE IF t[tex].op \in {"txs", "query_levels", "lod"} THEN no
      ELSE IF t[deref].op # "var" /\ ~nir_src_is_const(t, t[deref].src[2]) THEN no
      ELSE LET array_index ==
                 IF t[deref].op # "var"
                 THEN MIN2(nir_src_as_uint(t, t[deref].src[2]),
                           binding.array_size - 1)
                 ELSE 0
               ycbcr_sampler == ycbcr_samplers[array_index + 1]
           IN  IF ycbcr_sampler.format = VK_FORMAT_UNDEFINED THEN no
               ELSE [lower |-> TRUE, deref |-> deref, conversion |-> ycbcr_sampler]

\* What a call of try_lower_tex_ycbcr can come to, the asserts of lines
\* 353, 375 and 378 included.  end is "" when the call goes on as
\* TryLowerDecision says, "abort" when an assert fails, "crash" when the
\* build without asserts faults.  Without the asserts the code reads
\* tex->src[-1], or the arr member of a deref that is not an array step:
\* what it finds there is any value.
Outcome(d, end) ==
  [lower |-> d.lower, deref |-> d.deref, conversion |-> d.conversion, end |-> end]

\* the three asserts written as returns of false
TryLowerOutcomes_returning(t, lay, tex, nd) ==
  LET deref_src_idx == nir_tex_instr_src_index(t[tex], "texture_deref")
      none == [lower |-> FALSE, deref |-> 0, conversion |-> NoConversion]
  IN  IF deref_src_idx = 0
      THEN {Outcome(none, "")}
      ELSE
        LET deref == t[tex].src[deref_src_idx].ssa
            no == [lower |-> FALSE, deref |-> deref, conversion |-> NoConversion]
        IN  IF t[tex].meta.texture_index # 0 \/ t[deref].op \notin {"var", "array"}
            THEN {Outcome(no, "")}
            ELSE {Outcome(TryLowerDecision(t, lay, tex), "")}

TryLowerOutcomes(t, lay, tex, nd) ==
  LET deref_src_idx == nir_tex_instr_src_index(t[tex], "texture_deref")
      none == [lower |-> FALSE, deref |-> 0, conversion |-> NoConversion]
  IN  IF deref_src_idx = 0
      THEN IF nd THEN {Outcome(none, "crash"), Outcome(none, "")}
                 ELSE {Outcome(none, "abort")}
      ELSE
        LET deref == t[tex].src[deref_src_idx].ssa
            var == nir_deref_instr_get_variable(t, deref)
            set_layout == lay[var.descriptor_set]
            binding == set_layout[var.binding]
            ycbcr_samplers == radv_immutable_ycbcr_samplers(set_layout, var.binding)
            no == [lower |-> FALSE, deref |-> deref, conversion |-> NoConversion]
            found(array_index) ==
              LET ycbcr_sampler ==
                    ycbcr_samplers[MIN2(array_index, binding.array_size - 1) + 1]
              IN  IF ycbcr_sampler.format = VK_FORMAT_UNDEFINED THEN no
                  ELSE [lower |-> TRUE, deref |-> deref,
                        conversion |-> ycbcr_sampler]
        IN  IF ycbcr_samplers = <<>> \/ t[tex].op \in {"txs", "query_levels", "lod"}
            THEN {Outcome(no, "")}
            ELSE IF t[tex].meta.texture_index # 0 /\ ~nd
            THEN {Outcome(no, "abort")}
            ELSE IF t[deref].op \notin {"var", "array"}
            THEN IF nd
                 THEN {Outcome(no, "crash"), Outcome(no, "")}
                        \cup {Outcome(found(i), "") : i \in 0..MaxIndex}
                 ELSE {Outcome(no, "abort")}
            ELSE {Outcome(TryLowerDecision(t, lay, tex), "")}

(***************************************************************************)
(* History: one record per call of try_lower_tex_ycbcr.                    *)
(*   run, fn, tex   the call, the function and the instruction examined    *)
(*   instr          the instruction as it was when the call began           *)
(*   outcome        "skip" (returned false), "lowering" (under way),       *)
(*                  "lowered" (returned true), "abort" (an assert failed), *)
(*                  "crash" (the build without asserts faulted)            *)
(*   uses_before    the uses of the destination when the call began        *)
(*   first          the id of the first instruction the call built         *)
(*   planes, raw, result   plane_values[], the value                       *)
(*                  build_swizzled_components returned, and result         *)
(***************************************************************************)
HistRec(r, f, tex, instr, outcome, uses_before, first) ==
  [run |-> r, fn |-> f, tex |-> tex, instr |-> instr, outcome |-> outcome,
   uses_before |-> uses_before, first |-> first, planes |-> <<>>, raw |-> 0,
   result |-> 0, conversion |-> NoConversion]

CurBlock == funcs[fi].blocks[bi]

\* "a |= b" written as "a = a": what the call returned is dropped
OrAssign_dropped(a, b) == a
\* "a |= b" written as "a = true"
OrAssign_set(a, b) == TRUE

\* "a |= b" on the bools progress and function_progress
OrAssign(a, b) == a \/ b

(***************************************************************************)
(* radv_nir_lower_ycbcr_textures: the entry point and its loops.           *)
(***************************************************************************)
\* A call of the pass.  The shader left by one call may be given to the
\* pass once more: the pass is called at most twice.
CallPass ==
  /\ pc \in {"start", "done"}
  /\ run < 2
  /\ run' = run + 1
  /\ progress' = FALSE
  /\ fi' = 1
  /\ pc' = "func"
  \* the function bodies as the run finds them
  /\ entry' = funcs
  /\ UNCHANGED <<instrs, funcs, layout, eval_order, ndebug, bi, cur, nxt,
                 function_progress, ret, state, removed, hist>>

\* nir_foreach_function is over: return progress
ReturnProgress ==
  /\ pc = "func"
  /\ fi > Len(funcs)
  /\ ret' = Append(ret, progress)
  /\ pc' = "done"
  /\ UNCHANGED <<instrs, funcs, layout, eval_order, ndebug, entry, run, fi, bi, cur, nxt,
                 progress, function_progress, state, removed, hist>>

\* if (!function->impl) continue;
SkipFunction ==
  /\ pc = "func"
  /\ fi <= Len(funcs)
  /\ ~funcs[fi].impl
  /\ fi' = fi + 1
  /\ UNCHANGED <<instrs, funcs, layout, eval_order, ndebug, entry, pc, run, bi, cur, nxt,
                 progress, function_progress, ret, state, removed, hist>>

\* function_progress = false; nir_builder_init; enter the first block
BeginFunction ==
  /\ pc = "func"
  /\ fi <= Len(funcs)
  /\ funcs[fi].impl
  /\ function_progress' = FALSE
  /\ bi' = 1
  /\ LET blk == funcs[fi].blocks[1]
         c == FirstTex(instrs, blk, BlockHead(blk))
     IN  cur' = c /\ nxt' = Succ(blk, c)
  /\ pc' = "scan"
  /\ UNCHANGED <<instrs, funcs, layout, eval_order, ndebug, entry, run, fi, progress, ret,
                 state, removed, hist>>

\* nir_foreach_block: the block holds no further texture instruction
NextBlock ==
  /\ pc = "scan"
  /\ cur = 0
  /\ bi < Len(funcs[fi].blocks)
  /\ bi' = bi + 1
  /\ LET blk == funcs[fi].blocks[bi + 1]
         c == FirstTex(instrs, blk, BlockHead(blk))
     IN  cur' = c /\ nxt' = Succ(blk, c)
  /\ UNCHANGED <<instrs, funcs, layout, eval_order, ndebug, entry, pc, run, fi, progress,
                 function_progress, ret, state, removed, hist>>

\* nir_metadata_preserve(impl, preserved): valid_metadata &= preserved
nir_metadata_preserve(fs, f, preserved) ==
  [fs EXCEPT ![f].valid_metadata = @ \cap preserved]

\* the test of function_progress left out: nir_metadata_preserve is called
\* for every function
EndFunction_unconditional ==
  /\ pc = "scan"
  /\ cur = 0
  /\ bi = Len(funcs[fi].blocks)
  /\ funcs' = nir_metadata_preserve(funcs, fi, {"block_index", "dominance"})
  /\ progress' = OrAssign(progress, function_progress)
  /\ fi' = fi + 1
  /\ pc' = "func"
  /\ UNCHANGED <<instrs, layout, eval_order, ndebug, entry, run, bi, cur, nxt,
                 function_progress, ret, state, removed, hist>>

\* the blocks of the function are done
EndFunction ==
  /\ pc = "scan"
  /\ cur = 0
  /\ bi = Len(funcs[fi].blocks)
  /\ funcs' = IF function_progress
              THEN nir_metadata_preserve(funcs, fi, {"block_index", "dominance"})
              ELSE funcs
  /\ progress' = OrAssign(progress, function_progress)
  /\ fi' = fi + 1
  /\ pc' = "func"
  /\ UNCHANGED <<instrs, layout, eval_order, ndebug, entry, run, bi, cur, nxt,
                 function_progress, ret, state, removed, hist>>

(***************************************************************************)
(* try_lower_tex_ycbcr, in the steps of its body.                          *)
(***************************************************************************)
\* the call on the texture instruction cur, up to
\* "builder->cursor = nir_before_instr(&tex->instr)"
TryLowerTex ==
  /\ pc = "scan"
  /\ cur # 0
  /\ \E d \in TryLowerOutcomes(instrs, layout, cur, ndebug) :
     LET n == UseCount(instrs, funcs, cur)
     IN  IF d.end # ""
         THEN \* the process ends here
              /\ hist' = Append(hist,
                   HistRec(run, fi, cur, instrs[cur], d.end, n, 0))
              /\ pc' = d.end
              /\ UNCHANGED <<state, cur, nxt, function_progress>>
         ELSE IF d.lower
         THEN /\ state' = [origin_tex |-> cur, tex_deref |-> d.deref,
                           conversion |-> d.conversion, plane_values |-> <<>>,
                           p |-> 0, result |-> 0]
              /\ hist' = Append(hist,
                   [HistRec(run, fi, cur, instrs[cur], "lowering", n,
                            Len(instrs) + 1)
                      EXCEPT !.conversion = d.conversion])
              /\ pc' = "planes"
              /\ UNCHANGED <<cur, nxt, function_progress>>
         ELSE \* return false; function_progress |= false; next instruction
              /\ hist' = Append(hist,
                   HistRec(run, fi, cur, instrs[cur], "skip", n, 0))
              /\ function_progress' = OrAssign(function_progress, FALSE)
              /\ LET c == FirstTex(instrs, CurBlock, nxt)
                 IN  cur' = c /\ nxt' = Succ(CurBlock, c)
              /\ UNCHANGED <<state, pc>>
  /\ UNCHANGED <<instrs, funcs, layout, eval_order, ndebug, entry, run, fi, bi, progress,
                 ret, removed>>

\* the table after a builder call and the blocks with the new instructions
\* before the sample being lowered
Built(r) ==
  /\ instrs' = r.t
  /\ funcs' = [funcs EXCEPT ![fi].blocks[bi] =
                 InsertedBlock(@, state.origin_tex, NewIds(instrs, r.t))]

\* for (p = 0; p < plane_count; ++p) plane_values[p] = create_plane_tex_instr_implicit
CreatePlaneTex ==
  /\ pc = "planes"
  /\ state.p < vk_format_get_plane_count(state.conversion.format)
  /\ LET r == create_plane_tex_instr_implicit(instrs, state, state.p)
     IN  /\ Built(r)
         /\ state' = [state EXCEPT !.plane_values = Append(@, r.v), !.p = @ + 1]
         /\ hist' = [hist EXCEPT ![Len(hist)].planes = Append(@, r.v)]
  /\ UNCHANGED <<layout, eval_order, ndebug, entry, pc, run, fi, bi, cur, nxt, progress,
                 function_progress, ret, removed>>

\* result = build_swizzled_components(...)
BuildSwizzled ==
  /\ pc = "planes"
  /\ state.p >= vk_format_get_plane_count(state.conversion.format)
  /\ LET r == build_swizzled_components(instrs, state.conversion.format,
                                        state.conversion.components,
                                        state.plane_values)
     IN  /\ Built(r)
         /\ state' = [state EXCEPT !.result = r.v]
         /\ hist' = [hist EXCEPT ![Len(hist)].raw = r.v, ![Len(hist)].result = r.v]
  /\ pc' = IF state.conversion.ycbcr_model # "RGB_IDENTITY"
           THEN "convert" ELSE "rewrite"
  /\ UNCHANGED <<layout, eval_order, ndebug, entry, run, fi, bi, cur, nxt, progress,
                 function_progress, ret, removed>>

\* a value of VkSamplerYcbcrModelConversion and one of VkSamplerYcbcrRange
\* that the switch statements have no case for
UnknownModel == "MODEL_MAX_ENUM"
UnknownRange == "RANGE_MAX_ENUM"

\* What a call of convert_ycbcr can come to, the unreachable() of y_range,
\* chroma_range and ycbcr_model_to_rgb_matrix included.  unreachable(str)
\* is assert(!str) followed by __builtin_unreachable(): with the asserts
\* the process aborts there, before anything of the range expansion is
\* built when the range is unknown, after the expanded vector is built
\* when only the model is.  Without them the behaviour is undefined: the
\* switch can go on as any of its cases, or the process can fault.
\* expanded tells whether the expanded vector was built before the end.
ConvertOutcomes(conversion, nd) ==
  LET known_range == conversion.ycbcr_range \in YcbcrRanges
      known_model == conversion.ycbcr_model \in YcbcrModels
      ranges == IF known_range THEN {conversion.ycbcr_range} ELSE YcbcrRanges
      models == IF known_model THEN {conversion.ycbcr_model}
                ELSE {"YCBCR_601", "YCBCR_709", "YCBCR_2020"}
      as(r, m) == [conversion EXCEPT !.ycbcr_range = r, !.ycbcr_model = m]
      stop(end) == [conversion |-> conversion, expanded |-> known_range,
                    end |-> end]
  IN  IF known_range /\ known_model
      THEN {[conversion |-> conversion, expanded |-> FALSE, end |-> ""]}
      ELSE IF nd
      THEN {stop("crash")}
             \cup {[conversion |-> as(r, m), expanded |-> FALSE, end |-> ""] :
                     r \in ranges, m \in models}
      ELSE {stop("abort")}

\* result = convert_ycbcr(&state, result, bits of the first plane's format)
ConvertYcbcr ==
  /\ pc = "convert"
  /\ \E o \in ConvertOutcomes(state.conversion, ndebug) :
       LET bits == vk_format_get_component_bits(state.conversion.format)
       IN  IF o.end = ""
           THEN LET r == convert_ycbcr(instrs, o.conversion, state.result, bits)
                IN  /\ Built(r)
                    /\ state' = [state EXCEPT !.result = r.v]
                    /\ hist' = [hist EXCEPT ![Len(hist)].result = r.v]
                    /\ pc' = "rewrite"
           ELSE \* the process ends here
                /\ IF o.expanded
                   THEN Built(Build(instrs,
                                    ExpandedChannels(o.conversion, state.result,
                                                     bits), <<>>))
                   ELSE UNCHANGED <<instrs, funcs>>
                /\ hist' = [hist EXCEPT ![Len(hist)].outcome = o.end]
                /\ pc' = o.end
                /\ UNCHANGED state
  /\ UNCHANGED <<layout, eval_order, ndebug, entry, run, fi, bi, cur, nxt, progress,
                 function_progress, ret, removed>>

\* nir_ssa_def_rewrite_uses(def, new): every use of def comes to read new
nir_ssa_def_rewrite_uses(t, fs, def, new) ==
  LET live == Live(fs)
  IN  [i \in DOMAIN t |->
         IF i \in live
         THEN [t[i] EXCEPT !.src =
                 [k \in DOMAIN t[i].src |->
                    IF t[i].src[k].ssa = def
                    THEN [t[i].src[k] EXCEPT !.ssa = new]
                    ELSE t[i].src[k]]]
         ELSE t[i]]

\* the call of nir_ssa_def_rewrite_uses left out: the sample is removed
\* while its destination is still read
RewriteUses_skipped ==
  /\ pc = "rewrite"
  /\ pc' = "remove"
  /\ UNCHANGED <<instrs, funcs, layout, eval_order, ndebug, entry, run, fi, bi, cur, nxt,
                 progress, function_progress, ret, state, removed, hist>>

\* the uses redirected to the value build_swizzled_components returned
\* and not to the converted result
RewriteUses_unconverted ==
  /\ pc = "rewrite"
  /\ instrs' = nir_ssa_def_rewrite_uses(instrs, funcs, state.origin_tex,
                                        hist[Len(hist)].raw)
  /\ pc' = "remove"
  /\ UNCHANGED <<funcs, layout, eval_order, ndebug, entry, run, fi, bi, cur, nxt, progress,
                 function_progress, ret, state, removed, hist>>

\* nir_ssa_def_rewrite_uses(&tex->dest.ssa, nir_src_for_ssa(result))
RewriteUses ==
  /\ pc = "rewrite"
  /\ instrs' = nir_ssa_def_rewrite_uses(instrs, funcs, state.origin_tex, state.result)
  /\ pc' = "remove"
  /\ UNCHANGED <<funcs, layout, eval_order, ndebug, entry, run, fi, bi, cur, nxt, progress,
                 function_progress, ret, state, removed, hist>>

\* nir_instr_remove: the instruction leaves its block
nir_instr_remove(blk, id) == SelectSeq(blk, LAMBDA x : x # id)

\* nir_instr_remove(&tex->instr); return true; function_progress |= true;
\* the traversal goes on with the instruction saved as next
\* the traversal going on from the instruction after the saved next
RemoveInstr_skipping ==
  /\ pc = "remove"
  /\ LET blk == nir_instr_remove(CurBlock, state.origin_tex)
         c == FirstTex(instrs, blk, Succ(blk, nxt))
     IN  /\ funcs' = [funcs EXCEPT ![fi].blocks[bi] = blk]
         /\ cur' = c
         /\ nxt' = Succ(blk, c)
  /\ removed' = removed \cup {state.origin_tex}
  /\ function_progress' = OrAssign(function_progress, TRUE)
  /\ hist' = [hist EXCEPT ![Len(hist)].outcome = "lowered"]
  /\ state' = NoState
  /\ pc' = "scan"
  /\ UNCHANGED <<instrs, layout, eval_order, ndebug, entry, run, fi, bi, progress, ret>>

RemoveInstr ==
  /\ pc = "remove"
  /\ LET blk == nir_instr_remove(CurBlock, state.origin_tex)
         c == FirstTex(instrs, blk, nxt)
     IN  /\ funcs' = [funcs EXCEPT ![fi].blocks[bi] = blk]
         /\ cur' = c
         /\ nxt' = Succ(blk, c)
  /\ removed' = removed \cup {state.origin_tex}
  /\ function_progress' = OrAssign(function_progress, TRUE)
  /\ hist' = [hist EXCEPT ![Len(hist)].outcome = "lowered"]
  /\ state' = NoState
  /\ pc' = "scan"
  /\ UNCHANGED <<instrs, layout, eval_order, ndebug, entry, run, fi, bi, progress, ret>>

Next ==
  \/ CallPass
  \/ ReturnProgress
  \/ SkipFunction
  \/ BeginFunction
  \/ NextBlock
  \/ EndFunction
  \/ TryLowerTex
  \/ CreatePlaneTex
  \/ BuildSwizzled
  \/ ConvertYcbcr
  \/ RewriteUses
  \/ RemoveInstr

(***************************************************************************)
(* The shaders and conversions the specifications start from.              *)
(***************************************************************************)
Orders == {"ltr", "rtl"}

\* a sample the pass lowers, and one bound to an ordinary sampler
LoweredSite == Site("tex", "var", 2, 0, 1)
PlainSite == Site("tex", "var", 1, 0, 1)

Conv420 ==
  Conversion("G8_B8R8_2PLANE_420_UNORM", "YCBCR_601", "ITU_NARROW",
             "COSITED_EVEN", "MIDPOINT", IdentityMapping)
Conv422 ==
  Conversion("G8B8G8R8_422_UNORM", "RGB_IDENTITY", "ITU_FULL",
             "MIDPOINT", "MIDPOINT", IdentityMapping)
Conv3Plane ==
  Conversion("G8_B8_R8_3PLANE_420_UNORM", "YCBCR_IDENTITY", "ITU_FULL",
             "COSITED_EVEN", "COSITED_EVEN", <<"B", "IDENTITY", "R", "ONE">>)

\* Spec: every shader of at most MaxTokens tokens over the two sites
DriverTokens == {TokN, TokF, TokB, TokT(LoweredSite), TokT(PlainSite)}
DriverPrograms ==
  {toks \in UNION {[1..n -> DriverTokens] : n \in 1..MaxTokens} : WellFormed(toks)}
DriverConvs == {Conv420, Conv422}

Init ==
  /\ \E toks \in DriverPrograms, conv \in DriverConvs, order \in Orders :
       Setup(toks, conv, order)
  \* these shaders reach no assert and no unreachable()
  /\ ndebug = FALSE

Spec == Init /\ [][Next]_vars

\* SpecSite: one texture instruction of every kind, in the second block of
\* the second function
Refs ==
  {<<"var", 0>>, <<"dyn", 0>>}
    \cup {<<"const", i>> : i \in 0..MaxIndex}
    \cup {<<"deep", i>> : i \in 0..MaxIndex}
AllSites ==
  {Site(op, r[1], b, r[2], n) : op \in TexOps, r \in Refs, b \in 1..3, n \in 0..MaxUses}
SiteConvs == {Conv420, Conv422, Conv3Plane}

InitSite ==
  /\ \E site \in AllSites, conv \in SiteConvs, order \in Orders :
       Setup(<<TokN, TokF, TokB, TokT(site)>>, conv, order)
  \* these shaders reach no assert and no unreachable()
  /\ ndebug = FALSE

SpecSite == InitSite /\ [][Next]_vars

\* SpecConv: one lowered sample under every conversion
Mappings ==
  {IdentityMapping, <<"B", "G", "R", "A">>, <<"ZERO", "R", "ONE", "IDENTITY">>}
AllConvs ==
  {Conversion(f, m, r, x, y, c) :
     f \in Formats, m \in YcbcrModels, r \in YcbcrRanges,
     x \in ChromaLocations, y \in ChromaLocations, c \in Mappings}

InitConv ==
  /\ \E conv \in AllConvs, order \in Orders :
       Setup(<<TokN, TokF, TokT(Site("txs", "var", 1, 0, 1)), TokB,
               TokT(Site("tex", "var", 2, 0, 2))>>, conv, order)
  \* these shaders reach no assert and no unreachable()
  /\ ndebug = FALSE

SpecConv == InitConv /\ [][Next]_vars


\* SpecPre: one sample of every shape the asserts of try_lower_tex_ycbcr
\* speak of, followed by a sample the pass lowers, under both builds
PreRefs == {"var", "texidx", "struct", "none"}
PreSites == {Site(op, r, b, 0, 1) : op \in TexOps, r \in PreRefs, b \in 1..3}

InitPre ==
  /\ \E site \in PreSites, conv \in SiteConvs, order \in Orders :
       Setup(<<TokN, TokF, TokT(site), TokB, TokT(LoweredSite)>>, conv, order)
  /\ ndebug \in BOOLEAN

SpecPre == InitPre /\ [][Next]_vars


\* SpecCoord: a sample with a 2- or a 3-component coordinate under every
\* format and every pair of chroma sites
CoordConvs ==
  {Conversion(f, "YCBCR_709", "ITU_NARROW", x, y, IdentityMapping) :
     f \in Formats, x \in ChromaLocations, y \in ChromaLocations}
CoordSites == {Site("tex", r, 2, 0, 1) : r \in {"var", "layered"}}

InitCoord ==
  /\ \E site \in CoordSites, conv \in CoordConvs, order \in Orders :
       Setup(<<TokN, TokF, TokT(Site("txs", "var", 1, 0, 1)), TokB, TokT(site)>>,
             conv, order)
  \* these shaders reach no assert and no unreachable()
  /\ ndebug = FALSE

SpecCoord == InitCoord /\ [][Next]_vars


\* SpecShape: a sample with a destination of 1 to 4 components and a 2-
\* or a 3-component coordinate, under formats of 1, 2 and 3 planes
ShapeSites ==
  {SiteOfSize(Site("tex", r, 2, 0, 1), nc) : r \in {"var", "layered"}, nc \in 1..4}

InitShape ==
  /\ \E site \in ShapeSites, conv \in SiteConvs, order \in Orders :
       Setup(<<TokN, TokF, TokT(Site("txs", "var", 1, 0, 1)), TokB, TokT(site)>>,
             conv, order)
  \* these shaders reach no assert and no unreachable()
  /\ ndebug = FALSE

SpecShape == InitShape /\ [][Next]_vars


\* SpecIndex: a sample with every constant index, the largest 32-bit one
\* of the model included, on the bindings with a conversion table
IndexValues == (0..MaxIndex) \cup {2147483647}
IndexSites == {Site("tex", "const", b, i, 1) : b \in 2..3, i \in IndexValues}

InitIndex ==
  /\ \E site \in IndexSites, conv \in SiteConvs, order \in Orders :
       Setup(<<TokN, TokF, TokT(Site("txs", "var", 1, 0, 1)), TokB, TokT(site)>>,
             conv, order)
  \* these shaders reach no assert and no unreachable()
  /\ ndebug = FALSE

SpecIndex == InitIndex /\ [][Next]_vars


\* SpecUnknown: a lowered sample under every model and range, those the
\* switch statements have no case for included, in both builds
UnknownConvs ==
  {Conversion("G8_B8R8_2PLANE_420_UNORM", m, r, "MIDPOINT", "MIDPOINT",
              IdentityMapping) :
     m \in YcbcrModels \cup {UnknownModel}, r \in YcbcrRanges \cup {UnknownRange}}

InitUnknown ==
  /\ \E conv \in UnknownConvs, order \in Orders :
       Setup(<<TokN, TokF, TokT(Site("txs", "var", 1, 0, 1)), TokB,
               TokT(Site("tex", "var", 2, 0, 2))>>, conv, order)
  /\ ndebug \in BOOLEAN

SpecUnknown == InitUnknown /\ [][Next]_vars


(***************************************************************************)
(* What the claims speak of.                                               *)
(***************************************************************************)
\* the deref a texture instruction names as its texture
TexRef(t, tex) == t[tex].src[nir_tex_instr_src_index(t[tex], "texture_deref")].ssa

\* the reference is a root variable, or a root variable followed by one
\* array step
ShallowRef(t, d) ==
  t[d].op = "var" \/ (t[d].op = "array" /\ t[t[d].src[1].ssa].op = "var")

\* every array step of a shallow reference has a compile-time-constant index
ConstIndexed(t, d) ==
  t[d].op = "array" => t[t[d].src[2].ssa].type = "load_const"

ShapeQueries == {"txs", "query_levels", "lod"}

\* the binding a reference resolves to, and the element of its table that
\* the clamped constant index selects
RefBinding(t, lay, d) ==
  LET var == nir_deref_instr_get_variable(t, d)
  IN  lay[var.descriptor_set][var.binding]

SelectedDescriptor(t, lay, d) ==
  LET b == RefBinding(t, lay, d)
      i == IF t[d].op = "var" THEN 0 ELSE t[t[d].src[2].ssa].val[1][1]
  IN  b.ycbcr_samplers[(IF i < b.array_size - 1 THEN i ELSE b.array_size - 1) + 1]

\* the conditions under which an examined instruction is to be lowered
LowerableAsStated(t, lay, tex) ==
  /\ ShallowRef(t, TexRef(t, tex))
  /\ ConstIndexed(t, TexRef(t, tex))
  /\ RefBinding(t, lay, TexRef(t, tex)).ycbcr_samplers # <<>>
  /\ SelectedDescriptor(t, lay, TexRef(t, tex)).format # VK_FORMAT_UNDEFINED
  /\ t[tex].op \notin ShapeQueries

\* an examined instruction that was not lowered is as it was, in its block
LeftUnmodified(h) ==
  h.outcome = "skip" => instrs[h.tex] = h.instr /\ h.tex \in Live(funcs)

\* C1: every texture instruction the pass examines is lowered if and only
\* if its reference is a root variable or a root variable with one constant
\* array index, its binding has a conversion table, the selected
\* descriptor's format is not UNDEFINED and its op is not a shape query;
\* in every other case it is left unmodified.
C1_LoweredIffStatedConditions ==
  \A k \in DOMAIN hist :
    /\ (hist[k].outcome # "skip") <=> LowerableAsStated(instrs, layout, hist[k].tex)
    /\ LeftUnmodified(hist[k])

\* C1 on the references of at most one array step: there the statement
\* holds; the references of two array steps are what breaks it.
C1_LoweredIffStatedOnShallowRefs ==
  \A k \in DOMAIN hist :
    ShallowRef(instrs, TexRef(instrs, hist[k].tex)) =>
      /\ (hist[k].outcome # "skip") <=> LowerableAsStated(instrs, layout, hist[k].tex)
      /\ LeftUnmodified(hist[k])

\* a sample with a constant index beyond the array was lowered, and one
\* with a computed index was skipped
C1_Witness ==
  \E k \in DOMAIN hist :
    /\ hist[k].outcome = "lowered"
    /\ instrs[TexRef(instrs, hist[k].tex)].op = "array"
    /\ ShallowRef(instrs, TexRef(instrs, hist[k].tex))
    /\ hist[k].run = 1


\* the calls of try_lower_tex_ycbcr that run r brought to "return true"
LoweredInRun(r) == {k \in DOMAIN hist : hist[k].run = r /\ hist[k].outcome = "lowered"}

\* C2: radv_nir_lower_ycbcr_textures returns true if and only if at least
\* one instruction of a function body was lowered during that run;
\* functions without a body are skipped: no instruction of theirs is
\* examined.
C2_ReturnsTrueIffLowered ==
  /\ \A r \in DOMAIN ret : ret[r] <=> LoweredInRun(r) # {}
  /\ \A k \in DOMAIN hist : funcs[hist[k].fn].impl
  /\ pc \in {"scan", "planes", "convert", "rewrite", "remove"} => funcs[fi].impl

\* a run over a function without a body and a function in which a sample
\* was lowered has returned true, and a second run has returned too
C2_Witness ==
  /\ Len(ret) = 2
  /\ ret[1]
  /\ \E f \in DOMAIN funcs : ~funcs[f].impl
  /\ LoweredInRun(1) # {}


\* C3: redirect before delete.  When the original sample is about to be
\* removed its destination has no use left, and in every state of the pass
\* no source of an instruction in a block reads the destination of a
\* removed instruction.
C3_RedirectBeforeDelete ==
  /\ pc = "remove" => Uses(instrs, funcs, state.origin_tex) = {}
  /\ \A d \in removed : Uses(instrs, funcs, d) = {}

\* a sample whose destination had uses has been removed, and its users
\* are still in their block
C3_Witness ==
  \E k \in DOMAIN hist :
    /\ hist[k].outcome = "lowered"
    /\ hist[k].uses_before > 0
    /\ hist[k].tex \in removed
    /\ Uses(instrs, funcs, hist[k].result) # {}

\* C4: conservation of use-sites.  The value built as the replacement has
\* no use before the redirection (the instructions synthesized add none),
\* and once the sample is lowered the replacement has exactly as many uses
\* as the sample's destination had when the lowering began.
C4_UsesConserved ==
  /\ pc = "rewrite" => UseCount(instrs, funcs, state.result) = 0
  /\ pc = "remove" =>
       UseCount(instrs, funcs, state.result) = hist[Len(hist)].uses_before
  /\ \A k \in DOMAIN hist :
       hist[k].outcome = "lowered" =>
         UseCount(instrs, funcs, hist[k].result) = hist[k].uses_before

\* a sample read by two source slots has been lowered
C4_Witness ==
  \E k \in DOMAIN hist :
    /\ hist[k].outcome = "lowered"
    /\ hist[k].uses_before = MaxUses
    /\ UseCount(instrs, funcs, hist[k].result) = MaxUses


(***************************************************************************)
(* The values of the code built for the lowering under way, when it is     *)
(* complete (pc = "rewrite"): the last record of hist describes it.        *)
(***************************************************************************)
Lowering == hist[Len(hist)]

\* the coordinate source of a texture instruction
CoordOf(tex) == instrs[tex].src[nir_tex_instr_src_index(instrs[tex], "coord")].ssa

\* the size queries built for the lowering under way
SizeQueries ==
  {i \in Lowering.first..Len(instrs) : instrs[i].type = "tex" /\ instrs[i].op = "txs"}

\* the coordinate of clone p, given the original coordinate and the size
\* the queries answer
CloneCoord(p, coord, size) ==
  Eval(instrs, CoordOf(Lowering.planes[p + 1]),
       [i \in SizeQueries \cup {CoordOf(Lowering.tex)} |->
          IF i \in SizeQueries THEN size ELSE coord])

\* coordinates and image sizes to try the built code on
CoordSamples == {<<Rat(1, 4), Rat(3, 8)>>, <<RInt(0), RInt(1)>>}
SizeSamples == {<<RInt(8), RInt(4)>>, <<RInt(6), RInt(10)>>}

\* the axis c (0 or 1) of the conversion's format is one the clones of the
\* planes above 0 are adjusted on
AdjustedAxis(conv, c) ==
  LET d == vk_format_description(conv.format)
  IN  /\ <<d.width_divisor, d.height_divisor>>[c + 1] > 1
      /\ conv.chroma_offsets[c + 1] = "COSITED_EVEN"

AxisDivisor(conv, c) ==
  LET d == vk_format_description(conv.format)
  IN  <<d.width_divisor, d.height_divisor>>[c + 1]

\* the clones' coordinates are the original's, with offset(divisor,
\* dimension) added on the adjusted axes of the planes above 0
CoordsOffsetBy(Offset(_, _)) ==
  pc = "rewrite" =>
    \A p \in 0..(Len(Lowering.planes) - 1) :
      \A coord \in CoordSamples, size \in SizeSamples :
        \A c \in 0..1 :
          CloneCoord(p, coord, size)[c + 1] =
            IF p > 0 /\ AdjustedAxis(Lowering.conversion, c)
            THEN RAdd(coord[c + 1],
                      Offset(AxisDivisor(Lowering.conversion, c), size[c + 1]))
            ELSE coord[c + 1]

OffsetAsStated(divisor, dimension) == RInv(RMul(RInt(2 * divisor), dimension))
OffsetAsBuilt(divisor, dimension) == RInv(RMul(RInt(divisor), dimension))

\* C5 as stated: on an adjusted axis the coordinate of the clone of a
\* plane above 0 is original + 1 / (2 * divisor * dimension), so 1/(4*width)
\* away from plane 0's for divisor 2; the other components are plane 0's.
C5_OffsetIsHalfOverDivisorTimesSize == CoordsOffsetBy(OffsetAsStated)

\* C5 amended: on an adjusted axis the coordinate of the clone of a plane
\* above 0 is original + 1 / (divisor * dimension), so 1/(2*width) away
\* from plane 0's for divisor 2; the other components are plane 0's.
C5_OffsetIsOneOverDivisorTimesSize == CoordsOffsetBy(OffsetAsBuilt)

\* a 2-plane format with horizontal divisor 2 and a cosited-even
\* horizontal site has been lowered: plane 1's horizontal coordinate is
\* 1/(2*8) beyond plane 0's for width 8
C5_Witness ==
  /\ pc = "rewrite"
  /\ Len(Lowering.planes) = 2
  /\ AdjustedAxis(Lowering.conversion, 0)
  /\ AxisDivisor(Lowering.conversion, 0) = 2
  /\ ~AdjustedAxis(Lowering.conversion, 1)
  /\ CloneCoord(1, <<Rat(1, 4), Rat(3, 8)>>, <<RInt(8), RInt(4)>>)
       = <<Rat(5, 16), Rat(3, 8)>>
  /\ CloneCoord(0, <<Rat(1, 4), Rat(3, 8)>>, <<RInt(8), RInt(4)>>)
       = <<Rat(1, 4), Rat(3, 8)>>


\* the routing table as stated, by plane count: for each of the four
\* source channels the plane whose result is read and the component read
StatedRoute(planes) ==
  CASE planes = 3 -> [plane |-> <<2, 0, 1, 0>>, comp |-> <<0, 0, 0, 3>>]
    [] planes = 2 -> [plane |-> <<1, 0, 1, 0>>, comp |-> <<1, 0, 0, 3>>]
    [] planes = 1 -> [plane |-> <<0, 0, 0, 0>>, comp |-> <<0, 1, 2, 3>>]

\* plane results to try the combiner on: component c of plane p is 10 p + c
PlaneSample(p) == [c \in 1..4 |-> RInt(10 * p + (c - 1))]

\* the value of the combiner's output, given the plane results
CombinerOutput ==
  Eval(instrs, Lowering.raw,
       [i \in Range(Lowering.planes) |->
          PlaneSample(IndexOf(Lowering.planes, i) - 1)])

\* C6: output position i of the Channel Combiner is the constant 0.0 or
\* 1.0 when the swizzle selects a constant, and otherwise component
\* route_comp[k] of the result of plane route_plane[k], k the source
\* channel the swizzle selects for i, with the routing table fixed per
\* plane count; the plane routed to is below the plane count.
C6_CombinerRouting ==
  pc = "rewrite" =>
    LET planes == vk_format_get_plane_count(Lowering.conversion.format)
        route == StatedRoute(planes)
        swizzles == vk_format_compose_swizzles(Lowering.conversion.components)
    IN  /\ Len(Lowering.planes) = planes
        /\ instrs[Lowering.raw].op = "vec"
        /\ instrs[Lowering.raw].num_components = 4
        /\ \A i \in 1..4 :
             /\ swizzles[i] = "0" => CombinerOutput[i] = RInt(0)
             /\ swizzles[i] = "1" => CombinerOutput[i] = RInt(1)
             /\ swizzles[i] \in {"X", "Y", "Z", "W"} =>
                  LET k == SwizzleChannel(swizzles[i]) + 1
                  IN  /\ route.plane[k] < planes
                      /\ CombinerOutput[i] =
                           PlaneSample(route.plane[k])[route.comp[k] + 1]

\* a 3-plane format has been combined under a swizzle that selects a
\* constant and exchanges two channels
C6_Witness ==
  /\ pc = "rewrite"
  /\ Len(Lowering.planes) = 3
  /\ Lowering.conversion.components = <<"ZERO", "R", "ONE", "IDENTITY">>
  /\ CombinerOutput = <<RInt(0), RInt(20), RInt(1), RInt(3)>>


\* the range-expanded vector of the lowering under way: the replacement
\* value itself under YCBCR_IDENTITY, else the vector the first dot
\* product reads
ExpandedId ==
  IF Lowering.conversion.ycbcr_model = "YCBCR_IDENTITY"
  THEN Lowering.result
  ELSE instrs[instrs[Lowering.result].src[1].ssa].src[1].ssa

\* the value of the range-expanded vector, given the combiner's output
Expanded(raw) == Eval(instrs, ExpandedId, (Lowering.raw :> raw))

\* the normalised value of a code of the 8-bit scale in a format of the
\* given bit depth: code * 2^(bits-8) / (2^bits - 1)
CodeValue(code, bits) == Rat(code * Pow2(bits - 8), Pow2(bits) - 1)
CodeVector(codes, bits) == [i \in 1..4 |-> CodeValue(codes[i], bits)]

\* combiner outputs to try the converter on, as codes
CodeSamples ==
  {<<128, 16, 240, 7>>, <<16, 235, 128, 0>>, <<0, 255, 255, 255>>,
   <<240, 128, 16, 100>>}

\* luma and chroma expansion as stated
StatedLuma(y, bits, range) ==
  IF range = "ITU_FULL" THEN y
  ELSE RDiv(RAdd(RMul(y, RInt(Pow2(bits) - 1)), RInt(-16 * Pow2(bits - 8))),
            RInt(219 * Pow2(bits - 8)))
StatedChroma(c, bits, range) ==
  IF range = "ITU_FULL"
  THEN RAdd(c, RNeg(Rat(Pow2(bits - 1), Pow2(bits) - 1)))
  ELSE RDiv(RAdd(RMul(c, RInt(Pow2(bits) - 1)), RInt(-128 * Pow2(bits - 8))),
            RInt(224 * Pow2(bits - 8)))

\* C7: the converter maps the combiner output (c0, c1, c2, c3) to
\* (chroma(c0), luma(c1), chroma(c2), 1.0), bits being the bit depth of
\* the plane-0 format, with luma and chroma as stated for Full and Narrow
\* range; for bits = 8 Narrow, luma code 16 maps to 0 and 235 to 1, chroma
\* code 128 to 0, 16 to -1/2 and 240 to +1/2.
C7_RangeExpansion ==
  (pc = "rewrite" /\ Lowering.conversion.ycbcr_model # "RGB_IDENTITY") =>
    LET bits == vk_format_get_component_bits(Lowering.conversion.format)
        range == Lowering.conversion.ycbcr_range
    IN  /\ instrs[ExpandedId].op = "vec"
        /\ instrs[ExpandedId].num_components = 4
        /\ \A codes \in CodeSamples :
             LET c == CodeVector(codes, bits)
             IN  Expanded(c) = <<StatedChroma(c[1], bits, range),
                                 StatedLuma(c[2], bits, range),
                                 StatedChroma(c[3], bits, range), RInt(1)>>
        /\ (bits = 8 /\ range = "ITU_NARROW") =>
             /\ Expanded(<<Rat(128, 255), Rat(16, 255), Rat(240, 255), RInt(0)>>)
                  = <<RInt(0), RInt(0), Rat(1, 2), RInt(1)>>
             /\ Expanded(<<Rat(16, 255), Rat(235, 255), Rat(128, 255), RInt(0)>>)
                  = <<Rat(-1, 2), RInt(1), RInt(0), RInt(1)>>

\* an 8-bit Narrow conversion has been expanded: the codes (240, 235, 16)
\* come out as (+1/2, 1, -1/2, 1)
C7_Witness ==
  /\ pc = "rewrite"
  /\ Lowering.conversion.ycbcr_model = "YCBCR_601"
  /\ Lowering.conversion.ycbcr_range = "ITU_NARROW"
  /\ vk_format_get_component_bits(Lowering.conversion.format) = 8
  /\ Expanded(<<Rat(240, 255), Rat(235, 255), Rat(16, 255), Rat(1, 3)>>)
       = <<Rat(1, 2), RInt(1), Rat(-1, 2), RInt(1)>>


\* the value of the replacement vector, given the range-expanded vector
Converted(expanded) == Eval(instrs, Lowering.result, (ExpandedId :> expanded))

\* the dot product of two 4-component vectors
Dot4(a, b) ==
  RAdd(RAdd(RMul(a[1], b[1]), RMul(a[2], b[2])),
       RAdd(RMul(a[3], b[3]), RMul(a[4], b[4])))

\* expanded vectors (chroma, luma, chroma, 1) and the unit vectors to try
\* the matrix on
ExpandedSamples ==
  {<<Rat(1, 2), RInt(1), Rat(-1, 4), RInt(1)>>,
   <<Rat(-1, 2), Rat(1, 2), Rat(1, 2), RInt(1)>>,
   <<RInt(1), RInt(0), RInt(0), RInt(0)>>,
   <<RInt(0), RInt(1), RInt(0), RInt(0)>>,
   <<RInt(0), RInt(0), RInt(1), RInt(0)>>,
   <<RInt(0), RInt(0), RInt(0), RInt(1)>>}

MatrixModels == {"YCBCR_601", "YCBCR_709", "YCBCR_2020"}

\* C8: for the models BT.601, BT.709 and BT.2020 output channel r is the
\* dot product of the 4-component expanded vector with row r of the
\* model's matrix, the 4th output component is the constant 1.0, and an
\* expanded input with luma 1 and both chroma channels 0 yields
\* (1, 1, 1, 1).
C8_MatrixConversion ==
  (pc = "rewrite" /\ Lowering.conversion.ycbcr_model \in MatrixModels) =>
    LET m == ycbcr_model_to_rgb_matrix(Lowering.conversion.ycbcr_model)
    IN  /\ instrs[Lowering.result].op = "vec"
        /\ instrs[Lowering.result].num_components = 4
        /\ instrs[instrs[Lowering.result].src[4].ssa].type = "load_const"
        /\ \A r \in 1..3 :
             /\ instrs[instrs[Lowering.result].src[r].ssa].op = "fdot4"
             /\ instrs[instrs[Lowering.result].src[r].ssa].src[1].ssa = ExpandedId
        /\ \A x \in ExpandedSamples :
             Converted(x) = <<Dot4(x, m[1]), Dot4(x, m[2]), Dot4(x, m[3]), RInt(1)>>
        /\ Converted(<<RInt(0), RInt(1), RInt(0), RInt(1)>>)
             = <<RInt(1), RInt(1), RInt(1), RInt(1)>>

\* a BT.709 conversion has been built: white comes out white and an input
\* in the first chroma channel alone reaches output 0 and not output 2
C8_Witness ==
  /\ pc = "rewrite"
  /\ Lowering.conversion.ycbcr_model = "YCBCR_709"
  /\ Converted(<<RInt(0), RInt(1), RInt(0), RInt(1)>>)
       = <<RInt(1), RInt(1), RInt(1), RInt(1)>>
  /\ Converted(<<RInt(1), RInt(0), RInt(0), RInt(0)>>)[1] # RInt(0)
  /\ Converted(<<RInt(1), RInt(0), RInt(0), RInt(0)>>)[3] = RInt(0)


\* the instructions built after the Channel Combiner's output
BuiltAfterRaw == (Lowering.raw + 1)..Len(instrs)
MatrixInstrs == {i \in BuiltAfterRaw : instrs[i].type = "alu" /\ instrs[i].op = "fdot4"}
RangeInstrs ==
  {i \in BuiltAfterRaw :
     instrs[i].type = "alu" /\ instrs[i].op \in {"fadd", "fmul", "frcp"}}

\* the value of the replacement, given the combiner's output
Replacement(raw) == Eval(instrs, Lowering.result, (Lowering.raw :> raw))

\* C9: under RGB_IDENTITY the replacement value is the Channel Combiner
\* output and no range-expansion or matrix instruction is emitted; under
\* YCBCR_IDENTITY the replacement value is the range-expanded vector and
\* no matrix multiply is emitted; only under BT.601, BT.709 and BT.2020
\* are both range expansion and the matrix multiply emitted.
C9_ModelDispatch ==
  pc = "rewrite" =>
    LET model == Lowering.conversion.ycbcr_model
        bits == vk_format_get_component_bits(Lowering.conversion.format)
        range == Lowering.conversion.ycbcr_range
    IN  /\ model = "RGB_IDENTITY" =>
             /\ Lowering.result = Lowering.raw
             /\ BuiltAfterRaw = {}
        /\ model = "YCBCR_IDENTITY" =>
             /\ MatrixInstrs = {}
             /\ RangeInstrs # {}
             /\ \A codes \in CodeSamples :
                  LET c == CodeVector(codes, bits)
                  IN  Replacement(c) = <<StatedChroma(c[1], bits, range),
                                         StatedLuma(c[2], bits, range),
                                         StatedChroma(c[3], bits, range), RInt(1)>>
        /\ (MatrixInstrs # {} /\ RangeInstrs # {}) <=> model \in MatrixModels
        /\ model \in MatrixModels =>
             /\ Cardinality(MatrixInstrs) = 3
             /\ \A r \in 1..3 : instrs[Lowering.result].src[r].ssa \in MatrixInstrs

\* a lowering under BT.2020 and Full range is complete: three dot
\* products and the chroma offsets follow the combiner's output
C9_Witness ==
  /\ pc = "rewrite"
  /\ Lowering.conversion.ycbcr_model = "YCBCR_2020"
  /\ Lowering.conversion.ycbcr_range = "ITU_FULL"
  /\ Cardinality(MatrixInstrs) = 3
  /\ RangeInstrs # {}
  /\ Lowering.result # Lowering.raw


\* no texture instruction of the program is bound to a YCbCr conversion:
\* the binding its reference resolves to has no conversion in its table
NoYcbcrBound ==
  \A i \in Live(funcs) :
    instrs[i].type = "tex" =>
      \A e \in Range(RefBinding(instrs, layout, TexRef(instrs, i)).ycbcr_samplers) :
        e.format = VK_FORMAT_UNDEFINED

\* C10: on a program in which no texture instruction is bound to a YCbCr
\* conversion no step of the pass inserts, removes or modifies an
\* instruction, and every return of the pass, the second run's as the
\* first's, is false.
C10_NonTargetsUntouched ==
  [][NoYcbcrBound =>
       /\ instrs' = instrs
       /\ funcs' = funcs
       /\ removed' = removed
       /\ ret' # ret => ret' = Append(ret, FALSE)]_vars

\* the pass has run twice over a program whose samples are all bound to
\* ordinary samplers, has examined them in both runs and returned false
\* both times
C10_Witness ==
  /\ pc = "done"
  /\ run = 2
  /\ ret = <<FALSE, FALSE>>
  /\ NoYcbcrBound
  /\ \E k \in DOMAIN hist : hist[k].run = 1 /\ hist[k].outcome = "skip"
  /\ \E k \in DOMAIN hist : hist[k].run = 2 /\ hist[k].outcome = "skip"
  /\ \E i \in Live(funcs) : instrs[i].type = "tex"


\* function f has been left by the traversal with a sample of its body
\* lowered, in this run or in an earlier one
LoweredSoFar(f) ==
  \E k \in DOMAIN hist :
    /\ hist[k].fn = f
    /\ hist[k].outcome = "lowered"
    /\ (hist[k].run < run \/ f < fi)

StructuralCaches == {"block_index", "dominance"}

\* C11 as stated: once a sample of a function was lowered the function's
\* block-index and dominance caches are invalid; a function none of whose
\* samples was lowered has all its cached analyses valid.
C11_StructuralCachesInvalidated ==
  \A f \in DOMAIN funcs :
    funcs[f].impl =>
      IF LoweredSoFar(f)
      THEN funcs[f].valid_metadata \cap StructuralCaches = {}
      ELSE funcs[f].valid_metadata = AllMetadata

\* C11 amended: once a sample of a function was lowered the function's
\* block-index and dominance caches are the ones kept valid and its other
\* cached analyses are invalid; a function none of whose samples was
\* lowered has all its cached analyses valid.
C11_StructuralCachesPreserved ==
  \A f \in DOMAIN funcs :
    funcs[f].impl =>
      IF LoweredSoFar(f)
      THEN funcs[f].valid_metadata = StructuralCaches
      ELSE funcs[f].valid_metadata = AllMetadata

\* a run has ended over a function in which a sample was lowered and a
\* function in which none was: the first keeps two caches, the second all
C11_Witness ==
  /\ pc = "done"
  /\ \E f \in DOMAIN funcs :
       /\ LoweredSoFar(f)
       /\ funcs[f].valid_metadata = {"block_index", "dominance"}
  /\ \E f \in DOMAIN funcs :
       /\ funcs[f].impl
       /\ ~LoweredSoFar(f)
       /\ funcs[f].valid_metadata = AllMetadata


\* the instruction has no texture-reference source
NoTextureRef(ins) == \A k \in DOMAIN ins.src : ins.src[k].src_type # "texture_deref"

\* the reference of the instruction, and whether its binding has a table
InstrRef(ins) == ins.src[nir_tex_instr_src_index(ins, "texture_deref")].ssa
HasTable(ins) == RefBinding(instrs, layout, InstrRef(ins)).ycbcr_samplers # <<>>

\* the three conditions as the claim lists them
ListedCondition(ins) ==
  \/ NoTextureRef(ins)
  \/ ins.meta.texture_index # 0
  \/ instrs[InstrRef(ins)].op \notin {"var", "array"}

\* the conditions under which the examination reaches a failing assert:
\* no texture reference; or, the binding having a table and the op not
\* being a shape query, a non-zero texture index or a reference that is
\* neither a variable nor an array step
AssertedAgainst(ins) ==
  \/ NoTextureRef(ins)
  \/ /\ HasTable(ins)
     /\ ins.op \notin ShapeQueries
     /\ \/ ins.meta.texture_index # 0
        \/ instrs[InstrRef(ins)].op \notin {"var", "array"}

\* C12 as stated: the pass never aborts while examining a texture
\* instruction; every examined instruction ends in Skip or Lowered, and an
\* instruction with no texture reference, a non-zero texture index or a
\* reference that is neither a variable nor an array step ends in Skip.
C12_EveryConditionSkips ==
  /\ pc \notin {"abort", "crash"}
  /\ \A k \in DOMAIN hist :
       /\ hist[k].outcome \in {"skip", "lowering", "lowered"}
       /\ ListedCondition(hist[k].instr) => hist[k].outcome = "skip"

\* C12 amended: an examined instruction the asserts do not speak of ends
\* in exactly one of Skip and Lowered and the pass does not abort on it;
\* an instruction with no texture reference, or, once its binding is found
\* to have a table and its op is not a shape query, with a non-zero
\* texture index or a reference that is neither a variable nor an array
\* step, fails an assert: in a build with asserts the pass aborts there.
C12_AssertedConditionsAbort ==
  /\ \A k \in DOMAIN hist :
       /\ ~AssertedAgainst(hist[k].instr) =>
            /\ hist[k].outcome \in {"skip", "lowering", "lowered"}
            /\ hist[k].outcome = "lowering" => (k = Len(hist) /\ pc # "scan")
       /\ (AssertedAgainst(hist[k].instr) /\ ~ndebug) => hist[k].outcome = "abort"
       /\ hist[k].outcome \in {"abort", "crash"} => (k = Len(hist) /\ pc = hist[k].outcome)
  /\ pc \in {"abort", "crash"} =>
       (hist # <<>> /\ AssertedAgainst(hist[Len(hist)].instr))

\* the build with asserts has aborted on a sample with texture index 1 on
\* a binding with a conversion table
C12_Witness ==
  /\ pc = "abort"
  /\ ~ndebug
  /\ hist[Len(hist)].instr.meta.texture_index = 1
  /\ hist[Len(hist)].instr.op = "tex"
  /\ ~NoTextureRef(hist[Len(hist)].instr)
  /\ instrs[InstrRef(hist[Len(hist)].instr)].op = "var"


\* the instructions a value is computed from, itself included
RECURSIVE Reach(_)
Reach(id) == {id} \cup UNION {Reach(instrs[id].src[k].ssa) : k \in DOMAIN instrs[id].src}

\* the size queries the coordinate of clone p is computed from
QueriesRead(p) == Reach(CoordOf(Lowering.planes[p + 1])) \cap SizeQueries

\* some axis of the conversion's format needs coordinate adjustment in the
\* planes above 0
NeedsAdjustment(conv) ==
  /\ vk_format_get_plane_count(conv.format) > 1
  /\ \E c \in 0..1 : AdjustedAxis(conv, c)

\* C13: for each lowered sample the number of synthesized size queries is
\* 0 when no plane/axis needs adjustment and exactly 1 otherwise, for
\* every plane count; all adjusted planes and axes read that single query
\* and no instruction outside the site's lowering reads it.
C13_OneSizeQueryPerSite ==
  pc = "rewrite" =>
    /\ Cardinality(SizeQueries) =
         (IF NeedsAdjustment(Lowering.conversion) THEN 1 ELSE 0)
    /\ NeedsAdjustment(Lowering.conversion) =>
         \A p \in 1..(Len(Lowering.planes) - 1) : QueriesRead(p) = SizeQueries
    /\ \A q \in SizeQueries :
         \A u \in Uses(instrs, funcs, q) : u[1] >= Lowering.first

\* What holds instead: one size query per plane above 0 when an axis needs
\* adjustment, shared by the axes of that plane and by nothing else.
C13_OneSizeQueryPerAdjustedPlane ==
  pc = "rewrite" =>
    /\ Cardinality(SizeQueries) =
         (IF NeedsAdjustment(Lowering.conversion)
          THEN Len(Lowering.planes) - 1 ELSE 0)
    /\ QueriesRead(0) = {}
    /\ NeedsAdjustment(Lowering.conversion) =>
         /\ \A p \in 1..(Len(Lowering.planes) - 1) : Cardinality(QueriesRead(p)) = 1
         /\ \A p, q \in 1..(Len(Lowering.planes) - 1) :
              p # q => QueriesRead(p) \cap QueriesRead(q) = {}
    /\ \A q \in SizeQueries :
         \A u \in Uses(instrs, funcs, q) : u[1] >= Lowering.first

\* a 3-plane format subsampled and cosited on both axes has been lowered
\* with two size queries, one read by plane 1 and one by plane 2
C13_Witness ==
  /\ pc = "rewrite"
  /\ Len(Lowering.planes) = 3
  /\ AdjustedAxis(Lowering.conversion, 0)
  /\ AdjustedAxis(Lowering.conversion, 1)
  /\ Cardinality(SizeQueries) = 2
  /\ QueriesRead(1) # QueriesRead(2)


\* 3-component coordinates and sizes to try the clones on: a clone of a
\* 2-component coordinate reads the first two components only
CoordSamples3 == {<<Rat(1, 4), Rat(3, 8), RInt(2)>>, <<RInt(0), RInt(1), RInt(5)>>}
SizeSamples3 == {<<RInt(8), RInt(4), RInt(6)>>}

\* C14: the clone for plane 0 has the original's coordinate source; in the
\* clone of a plane above 0 component c of the coordinate differs from the
\* original's only when c is the horizontal or vertical axis, the format's
\* divisor on it is > 1 and the chroma site on it is CositedEven; every
\* other component, the array layer included, and every source that is
\* not the coordinate is the original's.
C14_AdjustedCoordinates ==
  pc = "rewrite" =>
    LET old == Lowering.instr
        n == Len(old.src)
        nc == instrs[CoordOf(Lowering.tex)].num_components
    IN  \A p \in 0..(Len(Lowering.planes) - 1) :
          LET clone == instrs[Lowering.planes[p + 1]]
          IN  /\ Len(clone.src) = n + 1
              /\ \A i \in 1..n :
                   /\ clone.src[i].src_type = old.src[i].src_type
                   /\ (old.src[i].src_type # "coord" \/ p = 0) =>
                        clone.src[i] = old.src[i]
              /\ instrs[CoordOf(Lowering.planes[p + 1])].num_components = nc
              /\ \A coord \in CoordSamples3, size \in SizeSamples3 :
                   \A c \in 0..(nc - 1) :
                     (CloneCoord(p, coord, size)[c + 1] # coord[c + 1])
                       <=> (p > 0 /\ c < 2 /\ AdjustedAxis(Lowering.conversion, c))

\* a sample with coordinate (x, y, layer) has been lowered under a 2-plane
\* format cosited horizontally and midpoint vertically: plane 1 has x
\* moved and y and the layer as they were, and the bias source carried over
C14_Witness ==
  /\ pc = "rewrite"
  /\ Len(Lowering.planes) = 2
  /\ instrs[CoordOf(Lowering.tex)].num_components = 3
  /\ Lowering.conversion.chroma_offsets = <<"COSITED_EVEN", "MIDPOINT">>
  /\ vk_format_description(Lowering.conversion.format).height_divisor = 2
  /\ CloneCoord(1, <<Rat(1, 4), Rat(3, 8), RInt(2)>>, <<RInt(8), RInt(4), RInt(6)>>)
       = <<Rat(5, 16), Rat(3, 8), RInt(2)>>
  /\ \E i \in DOMAIN instrs[Lowering.planes[2]].src :
       instrs[Lowering.planes[2]].src[i].src_type = "bias"


\* C15: a lowered sample whose format has plane_count planes yields
\* exactly plane_count clones, created in the order of the plane index;
\* clone p has the original's sources in the original order (the
\* coordinate of a plane above 0 in its place, adjusted), then exactly one
\* plane source holding the literal p, the original's op, dimensionality,
\* arrayed flag and selected component, and a destination of the
\* original's component count and bit width.
C15_PlaneClones ==
  pc = "rewrite" =>
    LET old == Lowering.instr
        n == Len(old.src)
        planes == Lowering.planes
        clones == {i \in Lowering.first..Len(instrs) :
                     instrs[i].type = "tex" /\ instrs[i].op # "txs"}
    IN  /\ Len(planes) = vk_format_get_plane_count(Lowering.conversion.format)
        /\ Len(planes) \in 1..3
        /\ clones = Range(planes)
        /\ \A p, q \in DOMAIN planes : p < q => planes[p] < planes[q]
        /\ \A p \in 0..(Len(planes) - 1) :
             LET clone == instrs[planes[p + 1]]
             IN  /\ Len(clone.src) = n + 1
                 /\ \A i \in 1..n :
                      /\ clone.src[i].src_type = old.src[i].src_type
                      /\ old.src[i].src_type # "coord" => clone.src[i] = old.src[i]
                 /\ clone.src[n + 1].src_type = "plane"
                 /\ instrs[clone.src[n + 1].ssa].type = "load_const"
                 /\ instrs[clone.src[n + 1].ssa].val = <<RInt(p)>>
                 /\ clone.op = old.op
                 /\ clone.meta.sampler_dim = old.meta.sampler_dim
                 /\ clone.meta.is_array = old.meta.is_array
                 /\ clone.meta.component = old.meta.component
                 /\ clone.num_components = old.num_components
                 /\ clone.bit_size = old.bit_size

\* a sample of an arrayed image with a 2-component destination has been
\* cloned three times
C15_Witness ==
  /\ pc = "rewrite"
  /\ Len(Lowering.planes) = 3
  /\ Lowering.instr.num_components = 2
  /\ Lowering.instr.meta.is_array
  /\ instrs[Lowering.planes[3]].num_components = 2
  /\ instrs[Lowering.planes[3]].meta.is_array
  /\ instrs[instrs[Lowering.planes[3]].src[Len(Lowering.instr.src) + 1].ssa].val
       = <<RInt(2)>>


\* a reference of more than one indirection level: an array step applied
\* to an array step
DeepRef(t, d) == t[d].op = "array" /\ t[t[d].src[1].ssa].op # "var"

\* C16: a sample bound to a YCbCr conversion whose reference has more than
\* one indirection level is not lowered and is left untouched, as is one
\* whose single index is not a compile-time constant.
C16_DeepChainsNotLowered ==
  \A k \in DOMAIN hist :
    LET d == TexRef(instrs, hist[k].tex)
    IN  (/\ RefBinding(instrs, layout, d).ycbcr_samplers # <<>>
         /\ \/ DeepRef(instrs, d)
            \/ ShallowRef(instrs, d) /\ ~ConstIndexed(instrs, d))
        => hist[k].outcome = "skip" /\ LeftUnmodified(hist[k])

\* C16 on the case it is compared with: a sample bound to a YCbCr
\* conversion whose single index is not a compile-time constant is not
\* lowered and is left untouched.
C16_ComputedIndexNotLowered ==
  \A k \in DOMAIN hist :
    LET d == TexRef(instrs, hist[k].tex)
    IN  (/\ RefBinding(instrs, layout, d).ycbcr_samplers # <<>>
         /\ ShallowRef(instrs, d) /\ ~ConstIndexed(instrs, d))
        => hist[k].outcome = "skip" /\ LeftUnmodified(hist[k])

\* a plain sample with a computed index on a binding with a conversion
\* table was examined and skipped
C16_Witness ==
  \E k \in DOMAIN hist :
    LET d == TexRef(instrs, hist[k].tex)
    IN  /\ RefBinding(instrs, layout, d).ycbcr_samplers # <<>>
        /\ instrs[d].op = "array"
        /\ ~ConstIndexed(instrs, d)
        /\ instrs[hist[k].tex].op = "tex"
        /\ hist[k].outcome = "skip"


\* the constant index of a reference with one array step
ConstIndex(t, d) == nir_src_as_uint(t, t[d].src[2])

\* min(i, array_size - 1)
ClampedIndex(i, array_size) == IF i < array_size - 1 THEN i ELSE array_size - 1

\* C17: for every constant array index i and every declared array size of
\* a binding with a conversion table, the descriptor selected for the
\* call site is element min(i, array_size - 1) of the table, and that
\* element index lies in [0, array_size - 1], also for i >= array_size and
\* for an array of one element: the sample is lowered with that element
\* when its format is defined and skipped when it is UNDEFINED.
C17_IndexClamped ==
  \A k \in DOMAIN hist :
    LET d == TexRef(instrs, hist[k].tex)
        b == RefBinding(instrs, layout, d)
        e == ClampedIndex(ConstIndex(instrs, d), b.array_size)
    IN  (/\ hist[k].instr.op = "tex"
         /\ instrs[d].op = "array"
         /\ b.ycbcr_samplers # <<>>)
        => /\ e \in 0..(b.array_size - 1)
           /\ e + 1 \in DOMAIN b.ycbcr_samplers
           /\ IF b.ycbcr_samplers[e + 1].format = VK_FORMAT_UNDEFINED
              THEN hist[k].outcome = "skip"
              ELSE /\ hist[k].outcome # "skip"
                   /\ hist[k].conversion = b.ycbcr_samplers[e + 1]

\* the largest index was clamped to the last of two elements and the
\* sample lowered with it
C17_Witness ==
  \E k \in DOMAIN hist :
    LET d == TexRef(instrs, hist[k].tex)
        b == RefBinding(instrs, layout, d)
    IN  /\ instrs[d].op = "array"
        /\ ConstIndex(instrs, d) = 2147483647
        /\ b.array_size = 2
        /\ hist[k].outcome = "lowered"
        /\ hist[k].conversion = b.ycbcr_samplers[2]


\* the conversion has a range that reaches the range expansion, or a model
\* that reaches the matrix selection, without being one of the known ones
UnknownConfiguration(c) ==
  /\ c.ycbcr_model # "RGB_IDENTITY"
  /\ c.ycbcr_range \notin YcbcrRanges \/ c.ycbcr_model \notin YcbcrModels

\* the call k of try_lower_tex_ycbcr has not gone beyond convert_ycbcr, or
\* has ended there in an abort that left the sample and its uses alone
StoppedAtConversion(k) ==
  /\ hist[k].outcome \in {"lowering", "abort"}
  /\ hist[k].outcome = "lowering" => k = Len(hist) /\ pc \in {"planes", "convert"}
  /\ hist[k].outcome = "abort" =>
       /\ k = Len(hist) /\ pc = "abort"
       /\ instrs[hist[k].tex] = hist[k].instr
       /\ hist[k].tex \in Live(funcs)
       /\ UseCount(instrs, funcs, hist[k].tex) = hist[k].uses_before

\* C18: when a color model other than the five known ones reaches the
\* matrix selection, or a range other than Full and Narrow reaches the
\* range expansion, the pass aborts; it never goes on to redirect the uses
\* or to delete the original instruction.
C18_UnknownConfigurationAborts ==
  \A k \in DOMAIN hist :
    UnknownConfiguration(hist[k].conversion) => StoppedAtConversion(k)

\* C18 in the build with the asserts: there the unknown model or range
\* ends the process in unreachable()'s assert.
C18_UnknownConfigurationAbortsWithAsserts ==
  ~ndebug =>
    \A k \in DOMAIN hist :
      UnknownConfiguration(hist[k].conversion) => StoppedAtConversion(k)

\* the build with the asserts has aborted in the matrix selection, on an
\* unknown model with a known range, after the expanded vector was built
C18_Witness ==
  /\ ~ndebug
  /\ pc = "abort"
  /\ hist # <<>>
  /\ hist[Len(hist)].conversion.ycbcr_model = UnknownModel
  /\ hist[Len(hist)].conversion.ycbcr_range \in YcbcrRanges
  /\ hist[Len(hist)].outcome = "abort"
  /\ hist[Len(hist)].raw # 0
  /\ Len(instrs) > hist[Len(hist)].raw


\* the instructions of a function body in block order and then instruction
\* order
RECURSIVE InOrder(_)
InOrder(blocks) ==
  IF blocks = <<>> THEN <<>> ELSE Head(blocks) \o InOrder(Tail(blocks))

\* the texture instructions function f held when the current run began
PreExisting(f) ==
  SelectSeq(InOrder(entry[f].blocks), LAMBDA i : instrs[i].type = "tex")

\* the instructions the current run has examined in function f, in the
\* order of the calls
Examined(f) ==
  LET calls == SelectSeq(hist, LAMBDA h : h.run = run /\ h.fn = f)
  IN  [k \in DOMAIN calls |-> calls[k].tex]

IsPrefix(a, b) == Len(a) <= Len(b) /\ SubSeq(b, 1, Len(a)) = a

\* what the current run has examined is, in every function, the beginning
\* of what the function held at the start, in that order; it is all of it
\* once the function is done, and the instruction at hand is the next one
ExaminedInOrder ==
  run >= 1 =>
    /\ \A f \in DOMAIN entry :
         /\ IsPrefix(Examined(f), PreExisting(f))
         /\ (f < fi \/ pc = "done") => Examined(f) = PreExisting(f)
         /\ f > fi => Examined(f) = <<>>
    /\ (pc = "scan" /\ cur # 0) =>
         /\ Len(Examined(fi)) < Len(PreExisting(fi))
         /\ cur = PreExisting(fi)[Len(Examined(fi)) + 1]

\* the pass is not at a point where nothing can be done: at every
\* position short of the end one of the steps has its condition
RunGoesOn ==
  /\ pc = "func" => fi \in 1..(Len(funcs) + 1)
  /\ pc = "scan" =>
       /\ fi \in DOMAIN funcs /\ funcs[fi].impl /\ bi \in DOMAIN funcs[fi].blocks
       /\ cur # 0 => cur \in Range(CurBlock) /\ instrs[cur].type = "tex"
  /\ pc = "planes" => state.p \in 0..vk_format_get_plane_count(state.conversion.format)
  /\ pc \in {"start", "done", "func", "scan", "planes", "convert", "rewrite", "remove"}

\* what is left of the current run: the functions, the blocks of the
\* function, its texture instructions not yet examined, the steps of the
\* lowering under way
Rank ==
  IF pc \in {"start", "done"} THEN <<0, 0, 0, 0>>
  ELSE IF pc = "func"
  THEN <<Len(funcs) + 1 - fi,
         IF fi <= Len(funcs) THEN Len(funcs[fi].blocks) + 1 ELSE 1, 0, 0>>
  ELSE <<Len(funcs) + 1 - fi,
         Len(funcs[fi].blocks) - bi,
         Len(PreExisting(fi)) - Len(Examined(fi)),
         CASE pc = "scan" -> 0
           [] pc = "remove" -> 1
           [] pc = "rewrite" -> 2
           [] pc = "convert" -> 3
           [] pc = "planes" -> 4 + (3 - state.p)>>

\* the lexicographic order on tuples of four naturals
LexLess(a, b) ==
  /\ \A i \in 1..4 : a[i] >= 0
  /\ \E i \in 1..4 : a[i] < b[i] /\ \A j \in 1..(i - 1) : a[j] = b[j]

\* C19: in each function body every texture instruction that exists when
\* the traversal starts is examined exactly once, in block order and then
\* instruction order; removing a lowered instruction neither skips nor
\* repeats a later one; the instructions the pass builds are not examined
\* in the same run; and the run ends, having examined exactly the
\* instructions that were there: every step of a run has a next step
\* until the end and brings down what is left of the run.
C19_Traversal ==
  /\ []ExaminedInOrder
  /\ []RunGoesOn
  /\ [][run' = run => LexLess(Rank', Rank)]_vars

\* a run has ended after it removed a sample that another texture
\* instruction followed in the same block, and examined both
C19_Witness ==
  /\ pc = "done"
  /\ \E f \in DOMAIN entry :
       /\ Len(PreExisting(f)) = 2
       /\ Examined(f) = PreExisting(f)
       /\ \E b \in DOMAIN entry[f].blocks :
            /\ PreExisting(f)[1] \in Range(entry[f].blocks[b])
            /\ PreExisting(f)[2] \in Range(entry[f].blocks[b])
       /\ PreExisting(f)[1] \in removed
       /\ \E i \in Live(funcs) : instrs[i].type = "tex" /\ i \notin Range(PreExisting(f))


\* the source slots, among the instructions of the lowering under way,
\* that read a plane result
PlaneReads ==
  {s \in UNION {{<<i, k>> : k \in DOMAIN instrs[i].src} :
                  i \in Lowering.first..Len(instrs)} :
     instrs[s[1]].src[s[2]].ssa \in Range(Lowering.planes)}

\* the replacement value has the component count and the bit width of the
\* original destination, and every component read from a plane result is
\* one the plane result has
TypePreserved ==
  /\ instrs[Lowering.result].num_components = Lowering.instr.num_components
  /\ instrs[Lowering.result].bit_size = Lowering.instr.bit_size
  /\ \A s \in PlaneReads :
       LET src == instrs[s[1]].src[s[2]]
       IN  src.swz \in 0..(instrs[src.ssa].num_components - 1)

\* C20: for every lowered sample, whatever the component count (1 to 4) of
\* its destination, the value its uses are redirected to has the
\* destination's component count and bit width, and every component the
\* channel combiner reads from a plane result (up to index 3) exists in
\* that plane result.
C20_TypePreserved ==
  pc = "rewrite" => TypePreserved

\* C20 for a destination of four components: there the vec4 the pass
\* builds has the destination's type and component 3 of a plane result
\* exists.
C20_TypePreservedOnVec4 ==
  (pc = "rewrite" /\ Lowering.instr.num_components = 4) => TypePreserved

\* a sample with a destination of four components under a 2-plane format
\* is about to be replaced by a value of four components, for which
\* component 3 of the first plane's result was read
C20_Witness ==
  /\ pc = "rewrite"
  /\ Lowering.instr.num_components = 4
  /\ Len(Lowering.planes) = 2
  /\ instrs[Lowering.result].num_components = 4
  /\ \E s \in PlaneReads :
       /\ instrs[s[1]].src[s[2]].ssa = Lowering.planes[1]
       /\ instrs[s[1]].src[s[2]].swz = 3


\* the number of Plane-selector sources of an instruction
PlaneSources(ins) ==
  Cardinality({k \in DOMAIN ins.src : ins.src[k].src_type = "plane"})

\* C21: when the pass is run a second time on the program the first run
\* left, the per-plane samples of the first run, which carry a
\* Plane-selector source, are not lowered again, no instruction carries
\* more than one Plane-selector source, and the second run returns false.
C21_SecondRunLowersNothing ==
  /\ \A k \in DOMAIN hist :
       (hist[k].run = 2 /\ PlaneSources(hist[k].instr) > 0) =>
         hist[k].outcome = "skip"
  /\ \A i \in DOMAIN instrs : PlaneSources(instrs[i]) <= 1
  /\ Len(ret) >= 2 => ret[2] = FALSE

\* C21 up to the end of the first run: the per-plane samples it builds are
\* not examined by it, and no instruction carries more than one
\* Plane-selector source.
C21_FirstRunLowersNoClone ==
  run <= 1 =>
    /\ \A k \in DOMAIN hist : PlaneSources(hist[k].instr) = 0
    /\ \A i \in DOMAIN instrs : PlaneSources(instrs[i]) <= 1

\* the first run has returned true and left a per-plane sample with one
\* Plane-selector source in a block
C21_Witness ==
  /\ run = 1
  /\ pc = "done"
  /\ ret = <<TRUE>>
  /\ \E i \in Live(funcs) : instrs[i].type = "tex" /\ PlaneSources(instrs[i]) = 1


\* the place of a live instruction in its function body, the blocks taken
\* one after the other
BodyOf(i) ==
  CHOOSE f \in DOMAIN funcs : i \in Range(InOrder(funcs[f].blocks))
Place(i) == IndexOf(InOrder(funcs[BodyOf(i)].blocks), i)

\* every value an instruction in a block reads is defined by an
\* instruction earlier in the same function body
DefinedBeforeUse ==
  \A f \in DOMAIN funcs :
    LET body == InOrder(funcs[f].blocks)
    IN  \A p \in DOMAIN body :
          \A k \in DOMAIN instrs[body[p]].src :
            \E q \in 1..(p - 1) : body[q] = instrs[body[p]].src[k].ssa

\* the instructions built so far for the lowering under way are in the
\* sample's block, one after the other in the order of their creation,
\* and the last is followed by the sample
InsertedBeforeSample ==
  pc \in {"planes", "convert", "rewrite"} =>
    LET n == Len(instrs) - Lowering.first + 1
        at == IndexOf(CurBlock, Lowering.tex)
    IN  /\ Lowering.tex \in Range(CurBlock)
        /\ at > n
        /\ \A j \in 1..n : CurBlock[at - n + j - 1] = Lowering.first + j - 1

\* the instructions a function body held when the current run began are,
\* those removed apart, in the blocks and in the order they were in
PreExistingInOrder ==
  \A f \in DOMAIN entry :
    /\ DOMAIN funcs[f].blocks = DOMAIN entry[f].blocks
    /\ \A b \in DOMAIN entry[f].blocks :
         SelectSeq(funcs[f].blocks[b], LAMBDA i : i \in Range(entry[f].blocks[b]))
           = SelectSeq(entry[f].blocks[b], LAMBDA i : i \notin removed)

\* once the uses are redirected, each of them comes after the definition
\* of the replacement value, and they are as many as the destination had
RedirectedAfterDefinition ==
  pc = "remove" =>
    /\ UseCount(instrs, funcs, Lowering.result) = Lowering.uses_before
    /\ \A u \in Uses(instrs, funcs, Lowering.result) :
         /\ BodyOf(u[1]) = fi
         /\ Place(Lowering.result) < Place(u[1])

\* C22: the instructions synthesized for a lowered sample are inserted in
\* the sample's block, contiguously and in creation order, immediately
\* before the sample; so after any number of lowerings every synthesized
\* value is defined earlier than each instruction that uses it, the
\* replacement value is defined before every redirected use, and the
\* relative order of the pre-existing instructions is unchanged.
C22_DefinitionBeforeUse ==
  /\ InsertedBeforeSample
  /\ DefinedBeforeUse
  /\ RedirectedAfterDefinition
  /\ PreExistingInOrder

\* in the second run, the uses of a lowered sample that followed another
\* instruction of its block have been redirected to a value built before
\* it
C22_Witness ==
  /\ run = 2
  /\ pc = "remove"
  /\ Lowering.uses_before >= 1
  /\ Len(instrs) - Lowering.first + 1 >= 3
  /\ IndexOf(CurBlock, Lowering.tex) > Len(instrs) - Lowering.first + 2
  /\ \E u \in Uses(instrs, funcs, Lowering.result) :
       Place(Lowering.tex) < Place(u[1])

=============================================================================
